---------------------------- MODULE Spec2Model ----------------------------
(***************************************************************************)
(* A model of civitai-prompt-app: the rule-based prompt categorizer of     *)
(* analyze_data.py, the variant lookup and the prompt synthesizer of       *)
(* app_2.py, and the fallback synthesizer of app.py.                       *)
(*                                                                         *)
(* Python values are modelled as follows.                                  *)
(*   str    a TLA+ string; characters are read with SubSeq(s, i, i).       *)
(*   None   the record PyNone; an optional string is PyNone or PyStr(s).   *)
(*   list   a sequence.                                                    *)
(*   dict   a sequence of <<key, value>> pairs in insertion order, keys    *)
(*          distinct (Python dicts iterate in insertion order).            *)
(*   a call the record Return(v), or Raise(exception name).                *)
(***************************************************************************)
EXTENDS Naturals, Sequences, FiniteSets, TLC

VARIABLES
    prompt,           \* argument of categorize_prompt / analyze_negative_prompt
    categories,       \* what categorize_prompt(prompt) came to
    exclusions,       \* what analyze_negative_prompt(prompt) came to
    term,             \* argument of get_random_variation
    variation,        \* what get_random_variation(term) came to
    selections,       \* argument of the synthesizers: category -> chosen terms
    num_variations,   \* argument of the synthesizers
    include_quality,  \* argument of generate_variations
    quality_tags,     \* argument of generate_variations
    variations,       \* what generate_variations(...) came to
    fallback_variations, \* what generate_fallback_variations(...) came to
    negative_prompts, \* app_2.py: the negative prompts of one Generate
    app_negative_prompts, \* app.py: the negative prompts of one Generate
    widgets,          \* app.py page: what the category widgets hold
    seed_input,       \* app.py page: the seed text
    use_ai,           \* app.py page: the AI checkbox
    api_key,          \* app.py page: the API key
    clear_prev,       \* app.py page: the checkbox "Clear previous results"
    service,          \* the replies the service gives in this session
    reply,            \* what the service did with the last request
    generated,             \* st.session_state.generated
    positive_variations,   \* st.session_state.positive_variations
    negative_variations,   \* st.session_state.negative_variations
    generation_count,      \* st.session_state.generation_count
    expanded_prompts,      \* st.session_state.expanded_prompts
    show_expansion,        \* st.session_state.show_expansion
    page_error,       \* the exception that ended the last run of the script
    expanded_from,    \* history: the positive prompt each stored expansion list was made from
    variations_again, \* what a second call of generate_variations(...) came to
    reseeded,         \* random.seed(seed) was called between the two calls
    images,           \* analyze_data.py: the records of the corpus
    lora_analysis,    \* what analyze_loras(images) came to
    technical,        \* what analyze_technical_settings(images) came to
    analysis,         \* what main() came to
    analysis_again,   \* what a second run of main() on the same corpus came to
    seed,             \* the state the random generator was seeded to
    rng               \* the state of the random generator

varsCategorizer == <<prompt, categories, exclusions>>
varsVariant == <<term, variation>>
varsSynth == <<selections, num_variations, include_quality, quality_tags,
               variations, fallback_variations>>
varsNegative == <<negative_prompts, app_negative_prompts>>
varsApp == <<widgets, seed_input, use_ai, api_key, clear_prev, service, reply, generated,
             positive_variations, negative_variations, generation_count,
             expanded_prompts, show_expansion, page_error, expanded_from>>
varsRepeat == <<variations_again, reseeded>>
varsCorpus == <<images, lora_analysis, technical, analysis, analysis_again>>
varsRandom == <<seed, rng>>
vars == <<varsCategorizer, varsVariant, varsSynth, varsNegative, varsApp,
          varsRepeat, varsCorpus, varsRandom>>

---------------------------------------------------------------------------
(* Bounds of the model.                                                    *)

\* The prompts explored are joins of at most this many fragments.
MaxFragments == 2

\* The random generator delivers numbers below RandMax, and repeats them
\* after TapeLen draws.
RandMax == 4
TapeLen == 2

\* The synthesizers are asked for at most this many variations.
MaxVariations == 2

\* The page counts at most this many generations before it is cleared.
MaxGenerations == 2

---------------------------------------------------------------------------
(* Numbers written in the program.                                         *)

\* QUALITY_TAGS[:10] and min(3, ...) of generate_variations
QualityDefaultPool == 10
QualitySample == 3

\* QUALITY_TAGS[:8] and min(4, ...) of generate_fallback_variations
FallbackPool == 8
FallbackSample == 4

\* random.randint(2, 4) of generate_negative_prompt
NegativeMin == 2
NegativeMax == 4

\* response.status_code == 200
HttpOk == 200

\* content[7:-3] and content[3:-3]
FenceJsonLen == 7
FenceLen == 3

\* generate_fallback_expansion(pos, 5)
ExpansionCount == 5

---------------------------------------------------------------------------
(* Python values.                                                          *)

PyNone == [type |-> "NoneType"]
PyStr(s) == [type |-> "str", val |-> s]
IsNone(v) == v.type = "NoneType"

Return(v) == [kind |-> "return", value |-> v]
Raise(e) == [kind |-> "raise", exc |-> e]
NotCalled == [kind |-> "not called"]

\* dict: a sequence of <<key, value>> pairs.
EmptyDict == <<>>
DictKeys(d) == [i \in 1..Len(d) |-> d[i][1]]
DictKeySet(d) == {d[i][1] : i \in 1..Len(d)}
DictHas(d, k) == \E i \in 1..Len(d) : d[i][1] = k
DictGet(d, k) == d[CHOOSE i \in 1..Len(d) : d[i][1] = k][2]
\* d.get(k, default)
DictGetDefault(d, k, default) == IF DictHas(d, k) THEN DictGet(d, k) ELSE default
\* d[k] = v: an existing key keeps its place, a new key goes last.
DictSet(d, k, v) ==
    IF DictHas(d, k)
    THEN [i \in 1..Len(d) |-> IF d[i][1] = k THEN <<k, v>> ELSE d[i]]
    ELSE Append(d, <<k, v>>)

SeqElems(s) == {s[i] : i \in 1..Len(s)}

---------------------------------------------------------------------------
(* str methods.                                                            *)

Ch(s, i) == SubSeq(s, i, i)

ASCII_UPPERCASE == "ABCDEFGHIJKLMNOPQRSTUVWXYZ"
ASCII_LOWERCASE == "abcdefghijklmnopqrstuvwxyz"
ASCII_DIGITS == "0123456789"

CharsOf(s) == {Ch(s, i) : i \in 1..Len(s)}

\* The lowercase of each uppercase letter.
LowerOfUpper ==
    [c \in CharsOf(ASCII_UPPERCASE) |->
        Ch(ASCII_LOWERCASE,
           CHOOSE i \in 1..Len(ASCII_UPPERCASE) : Ch(ASCII_UPPERCASE, i) = c)]

LowerChar(c) == IF c \in DOMAIN LowerOfUpper THEN LowerOfUpper[c] ELSE c

RECURSIVE LowerFrom(_, _)
LowerFrom(s, i) ==
    IF i > Len(s) THEN "" ELSE LowerChar(Ch(s, i)) \o LowerFrom(s, i + 1)

\* s.lower()
str_lower(s) == LowerFrom(s, 1)

\* The characters str.strip() removes.
Whitespace == {" ", "\t", "\n", "\r", "\f"}

RECURSIVE FirstNonSpace(_, _)
FirstNonSpace(s, i) ==
    IF i > Len(s) \/ Ch(s, i) \notin Whitespace THEN i ELSE FirstNonSpace(s, i + 1)

RECURSIVE LastNonSpace(_, _)
LastNonSpace(s, j) ==
    IF j < 1 \/ Ch(s, j) \notin Whitespace THEN j ELSE LastNonSpace(s, j - 1)

\* s.strip()
str_strip(s) ==
    LET i == FirstNonSpace(s, 1)
        j == LastNonSpace(s, Len(s))
    IN  IF i > j THEN "" ELSE SubSeq(s, i, j)

RECURSIVE JoinFrom(_, _, _)
JoinFrom(sep, parts, i) ==
    IF i > Len(parts) THEN ""
    ELSE IF i = Len(parts) THEN parts[i]
    ELSE parts[i] \o sep \o JoinFrom(sep, parts, i + 1)

\* sep.join(parts)
str_join(sep, parts) == JoinFrom(sep, parts, 1)

\* s.split(sep), sep not empty: the pieces between the occurrences of
\* sep found from left to right, each search starting behind the last.
\* The first occurrence at or after i is found without a walk along s.
RECURSIVE SplitFrom(_, _, _, _)
SplitFrom(s, sep, start, i) ==
    LET hits == {j \in i..(Len(s) - Len(sep) + 1) :
                    SubSeq(s, j, j + Len(sep) - 1) = sep}
    IN  IF hits = {} THEN <<SubSeq(s, start, Len(s))>>
        ELSE LET j == CHOOSE h \in hits : \A h2 \in hits : h <= h2
             IN  <<SubSeq(s, start, j - 1)>>
                     \o SplitFrom(s, sep, j + Len(sep), j + Len(sep))

str_split(s, sep) == SplitFrom(s, sep, 1, 1)

\* s.startswith(prefix)
str_startswith(s, prefix) ==
    Len(prefix) <= Len(s) /\ SubSeq(s, 1, Len(prefix)) = prefix

\* s[a:-b] for a >= 0 and b > 0
SliceBetween(s, a, b) ==
    IF a >= Len(s) - b THEN "" ELSE SubSeq(s, a + 1, Len(s) - b)

\* re.split(r'[chars]+', text): the pieces between the maximal runs of
\* the characters of seps; a run at either end leaves an empty piece there.
RECURSIVE SkipRun(_, _, _)
SkipRun(s, seps, i) ==
    IF i > Len(s) \/ Ch(s, i) \notin seps THEN i ELSE SkipRun(s, seps, i + 1)

RECURSIVE ReSplitFrom(_, _, _, _)
ReSplitFrom(s, seps, start, i) ==
    IF i > Len(s) THEN <<SubSeq(s, start, Len(s))>>
    ELSE IF Ch(s, i) \in seps
         THEN LET j == SkipRun(s, seps, i)
              IN  <<SubSeq(s, start, i - 1)>> \o ReSplitFrom(s, seps, j, j)
         ELSE ReSplitFrom(s, seps, start, i + 1)

re_split_chars(seps, s) == ReSplitFrom(s, seps, 1, 1)

---------------------------------------------------------------------------
(* re.findall for the patterns of the two taxonomies.                      *)
(*                                                                         *)
(* Every pattern of CATEGORY_PATTERNS and NEGATIVE_CATEGORIES has the      *)
(* shape \b(alt1|alt2|...)\b.  An alternative is a literal, a literal with *)
(* one optional character (stands?ing), or a literal around one nested     *)
(* group of literals (missing (limbs|fingers|toes|arms|legs)).  The outer  *)
(* parentheses are capture group 1, the nested groups are numbered after   *)
(* it from left to right.                                                  *)

\* A literal alternative.
Lit(s) == [pre |-> s, grp |-> <<>>, post |-> ""]
Lits(ss) == [i \in 1..Len(ss) |-> Lit(ss[i])]
\* pre(g1|g2|...)post: one nested capture group.
Grp(pre, gs, post) == [pre |-> pre, grp |-> gs, post |-> post]
\* pre c? post: the regex engine tries the optional character first.
Opt(pre, c, post) == <<Lit(pre \o c \o post), Lit(pre \o post)>>

\* \w: letters, digits and the underscore.
WordChars ==
    CharsOf(ASCII_LOWERCASE) \cup CharsOf(ASCII_UPPERCASE) \cup CharsOf(ASCII_DIGITS)
        \cup {"_"}

\* \b before position i of text (i in 1..Len(text)+1): exactly one of the
\* characters at i-1 and i is a word character.
BoundaryAt(text, i) ==
    LET before == i > 1 /\ Ch(text, i - 1) \in WordChars
        after == i <= Len(text) /\ Ch(text, i) \in WordChars
    IN  before # after

\* The literal lit matches text at i (re.IGNORECASE) and a \b follows it.
LiteralAt(lit, text, i) ==
    /\ i + Len(lit) - 1 <= Len(text)
    /\ LowerChar(Ch(text, i)) = LowerChar(Ch(lit, 1))
    /\ str_lower(SubSeq(text, i, i + Len(lit) - 1)) = str_lower(lit)
    /\ BoundaryAt(text, i + Len(lit))

\* The first alternative of a nested group, from the k-th on, with which
\* the whole alternative matches at i; 0 when there is none.
RECURSIVE FirstGroupAlt(_, _, _, _)
FirstGroupAlt(alt, text, i, k) ==
    IF k > Len(alt.grp) THEN 0
    ELSE IF LiteralAt(alt.pre \o alt.grp[k] \o alt.post, text, i) THEN k
    ELSE FirstGroupAlt(alt, text, i, k + 1)

\* How one alternative matches at i: the length matched (0: no match) and
\* what its nested group captured ("" when it has none).
AltMatch(alt, text, i) ==
    IF alt.grp = <<>>
    THEN [len |-> IF LiteralAt(alt.pre, text, i) THEN Len(alt.pre) ELSE 0,
          inner |-> ""]
    ELSE LET k == FirstGroupAlt(alt, text, i, 1)
         IN  IF k = 0 THEN [len |-> 0, inner |-> ""]
             ELSE [len |-> Len(alt.pre) + Len(alt.grp[k]) + Len(alt.post),
                   inner |-> SubSeq(text, i + Len(alt.pre),
                                    i + Len(alt.pre) + Len(alt.grp[k]) - 1)]

\* The first alternative of the pattern, from the a-th on, that matches
\* at i; 0 when there is none.  Alternation is ordered.
RECURSIVE FirstAlt(_, _, _, _)
FirstAlt(pattern, text, i, a) ==
    IF a > Len(pattern) THEN 0
    ELSE IF AltMatch(pattern[a], text, i).len > 0 THEN a
    ELSE FirstAlt(pattern, text, i, a + 1)

\* The alternatives of the pattern that hold a nested group, in order.
GroupedAlts(pattern) == SelectSeq([a \in 1..Len(pattern) |-> a],
                                  LAMBDA a : pattern[a].grp # <<>>)

\* What findall reports for a match by alternative a at i: the text of
\* group 1 when the pattern has one group, else the tuple of all groups,
\* with "" for a group that took no part in the match.
FindallItem_OuterOnly(pattern, text, i, a) ==
    [tuple |-> FALSE,
     str |-> SubSeq(text, i, i + AltMatch(pattern[a], text, i).len - 1)]

FindallItem(pattern, text, i, a) ==
    LET m == AltMatch(pattern[a], text, i)
        outer == SubSeq(text, i, i + m.len - 1)
        ga == GroupedAlts(pattern)
    IN  IF ga = <<>>
        THEN [tuple |-> FALSE, str |-> outer]
        ELSE [tuple |-> TRUE,
              groups |-> <<outer>> \o
                  [g \in 1..Len(ga) |-> IF ga[g] = a THEN m.inner ELSE ""]]

\* The non-overlapping matches from position i on, left to right.
RECURSIVE FindallFrom(_, _, _)
FindallFrom(pattern, text, i) ==
    IF i > Len(text) THEN <<>>
    ELSE LET a == IF BoundaryAt(text, i) THEN FirstAlt(pattern, text, i, 1) ELSE 0
         IN  IF a = 0 THEN FindallFrom(pattern, text, i + 1)
             ELSE <<FindallItem(pattern, text, i, a)>> \o
                  FindallFrom(pattern, text, i + AltMatch(pattern[a], text, i).len)

\* re.findall(pattern, text, re.IGNORECASE)
re_findall_FirstOnly(pattern, text) ==
    LET found == FindallFrom(pattern, text, 1)
    IN  IF found = <<>> THEN <<>> ELSE <<found[1]>>

re_findall(pattern, text) == FindallFrom(pattern, text, 1)

---------------------------------------------------------------------------
(* The two taxonomies: category -> patterns, in the order declared.        *)

CATEGORY_PATTERNS ==
  <<
    <<"subject", <<
        Lits(<<"1girl", "1boy", "2girls", "2boys", "female">>)
          \o Opt("futan", "a", "ri")
          \o Lits(<<"woman", "man", "girl", "boy">>),
        Lits(<<"1femboy", "solo", "femboy">>)
    >> >>,
    <<"pose", <<
        Lits(<<"sitting", "seated", "sit">>)
          \o Opt("stand", "s", "ing")
          \o Lits(<<"stand", "lying", "lay", "pinup pose", "kneeling", "kneel",
                "squatting", "squat", "legs apart", "legs spread", "on back",
                "on stomach", "bent over", "from behind", "from above",
                "from front", "profile", "side view", "front view">>)
    >> >>,
    <<"environment", <<
        Lits(<<"beach", "tropical", "outdoor", "indoor", "studio", "room",
                "forest", "desert", "mountain", "city", "night", "day", "sunset",
                "sunrise", "dawn", "dusk", "sky", "clouds", "grass", "palm",
                "resort", "ocean", "sea", "lake", "pool", "bed", "chair", "couch",
                "wall", "floor", "background">>)
    >> >>,
    <<"body_features", <<
        Lits(<<"large breasts", "big breasts", "huge breasts", "massive breasts",
                "small breasts", "flat chest", "athletic", "thin", "curvy",
                "curvaceous", "wide hips", "tiny waist", "petite", "slim", "fit",
                "fitness", "muscular", "toned", "plump", "chubby", "hourglass",
                "big ass", "flat ass", "small breasts">>)
    >> >>,
    <<"hair", <<
        Lits(<<"long hair", "short hair", "medium hair", "blonde", "brunette",
                "red hair", "black hair", "blue hair", "pink hair", "green hair",
                "white hair", "grey hair", "curly hair", "wavy hair",
                "straight hair", "bald", "shaved", "ponytail", "braids",
                "pixie cut", "long wavy", "short pixie">>)
    >> >>,
    <<"clothing", <<
        Lits(<<"bikini", "swimsuit", "naked", "nude", "topless", "clothed",
                "jeans", "shirt", "dress", "skirt", "blouse", "pants", "shorts",
                "underwear", "bra", "thong", "lingerie", "bodysuit", "costume",
                "uniform", "suit", "tie", "hat", "glasses", "jewelry", "necklace",
                "earrings", "bracelet", "ring", "tiara", "crown", "wings", "halo",
                "aura">>)
    >> >>,
    <<"lighting", <<
        Lits(<<"sunset", "sunrise", "dramatic lighting", "studio lighting",
                "soft lighting", "natural lighting", "neon", "backlit",
                "rim light", "godrays", "shadow", "high contrast", "low key",
                "high key", "golden hour", "blue hour", "night", "dark", "bright",
                "dim", "spotlight">>)
    >> >>,
    <<"art_style", <<
        Lits(<<"realistic photograph", "photorealistic", "realistic photo",
                "photograph", "photo of", "anime", "manga", "illustration",
                "digital painting", "oil painting", "watercolor", "3d render",
                "cg", "cartoon", "comic", "sketch", "draft">>)
    >> >>,
    <<"quality", <<
        Lits(<<"8k", "4k", "high resolution", "highres", "absurdres",
                "masterpiece", "best quality", "amazing quality",
                "ultra realistic", "sharp focus", "fine details", "detailed",
                "HDR", "realism", "realistic", "sharp", "clear", "crisp",
                "ultra detailed">>)
    >> >>,
    <<"camera", <<
        Lits(<<"75mm", "85mm", "50mm", "35mm", "wide angle", "telephoto", "macro",
                "depth of field", "DOF", "bokeh", "sharp focus", "soft focus",
                "blurry", "close-up", "wide shot", "full body", "portrait",
                "cowboy shot", "headshot", "medium shot", "long shot",
                "Technicolor", "Panavision", "Cinemascope", "Kodak", "Film">>)
    >> >>,
    <<"composition", <<
        Lits(<<"close-up", "closeup", "medium shot", "wide shot", "full body",
                "headshot", "cowboy shot", "portrait", "bust", "waist up",
                "thigh up", "full shot", "aerial", "worm">>)
          \o <<Grp("", <<"ass", "breast", "face", "body">>, " focus")>>
          \o Lits(<<"solo focus">>)
    >> >>,
    <<"emotion", <<
        Lits(<<"smiling", "smile", "laughing", "laughing", "crying", "sad",
                "angry", "happy", "sexy", "seductive", "confident", "shy",
                "nervous", "relaxed", "calm", "angry", "mad", "pleased",
                "blushing", "blush", "embarrassed", "fear", "surprised", "worried",
                "confused">>)
    >> >>,
    <<"skin_features", <<
        Lits(<<"sweaty", "wet", "shiny", "oily", "dry", "pale", "fair", "dark",
                "tan", "bronzed", "glowing", "radiant", "matte", "smooth", "rough",
                "soft", "velvety", "clear", "flawless", "perfect skin",
                "skin texture">>)
    >> >>,
    <<"physical_details", <<
        Lits(<<"abs", "muscles", "muscular", "veins", "tattoos", "tattoo",
                "piercings", "piercing", "scars", "marks", "freckles", "moles",
                "birthmark", "dimples", "sweat", "sweaty", "breathing", "veiny",
                "hairy", "hairless", "smooth skin">>)
    >> >>,
    <<"special_effects", <<
        Lits(<<"godrays", "particles", "sparkles", "glitter", "smoke", "fog",
                "mist", "fire", "flames", "water", "rain", "snow", "wind",
                "leaves", "petals", "magic", "sparkle", "glow", "shimmer">>)
    >> >>
  >>

NEGATIVE_CATEGORIES ==
  <<
    <<"quality", <<
        Lits(<<"worst quality", "low quality", "poor quality", "bad quality",
                "lowres", "blur", "blurry", "blurred", "pixelated", "upscaled",
                "compression artifacts", "jpeg artifacts">>)
    >> >>,
    <<"anatomy", <<
        Lits(<<"bad anatomy", "wrong anatomy", "disfigured", "deformed",
                "mutated", "ugly">>)
          \o <<Grp("missing ", <<"limbs", "fingers", "toes", "arms", "legs">>, "")>>
          \o <<Grp("extra ", <<"limbs", "fingers", "toes">>, "")>>
          \o <<Grp("fused ", <<"fingers", "limbs">>, "")>>
          \o Lits(<<"too many fingers", "fewer fingers", "bad hands", "bad feet",
                "bad face", "ugly face", "weird face">>)
    >> >>,
    <<"style", <<
        Lits(<<"3d", "cartoon", "anime", "manga", "comic", "sketch", "drawing",
                "painting", "illustrated", "clipart", "vector", "watermark",
                "signature", "text", "logo">>)
    >> >>,
    <<"unwanted_features", <<
        Lits(<<"fat", "chubby", "overweight", "thin", "skinny", "malnourished",
                "skeletal", "child", "kid", "teen", "underage", "adult", "mature">>)
    >> >>,
    <<"censoring", <<
        Lits(<<"censor", "censored", "bar censor", "mosaic", "blur", "covered",
                "hidden">>)
    >> >>
  >>

---------------------------------------------------------------------------
(* categorize_prompt and analyze_negative_prompt.  The two functions are   *)
(* the same code over the two taxonomies.                                  *)

\* [m.strip() for m in ms if m.strip()]
StripNonEmpty(ms) ==
    SelectSeq([i \in 1..Len(ms) |-> str_strip(ms[i])], LAMBDA m : m # "")

\* What one item of findall adds to `matches`: every non-empty group of a
\* tuple, or the stripped string.
MatchTerms_GroupOneOnly(match) ==
    IF match.tuple THEN StripNonEmpty(<<match.groups[1]>>)
    ELSE <<str_strip(match.str)>>

MatchTerms(match) ==
    IF match.tuple THEN StripNonEmpty(match.groups)
    ELSE <<str_strip(match.str)>>

RECURSIVE FoundTerms(_, _)
FoundTerms(found, k) ==
    IF k > Len(found) THEN <<>>
    ELSE MatchTerms(found[k]) \o FoundTerms(found, k + 1)

\* `matches` after the loop over the patterns of one category.
RECURSIVE CategoryMatches(_, _, _)
CategoryMatches(patterns, text, p) ==
    IF p > Len(patterns) THEN <<>>
    ELSE FoundTerms(re_findall(patterns[p], text), 1)
             \o CategoryMatches(patterns, text, p + 1)

\* list(set(xs)): the elements of xs once each, in an order the set's
\* hashing decides; every order is possible.
RECURSIVE ListsOfSet(_)
ListsOfSet(S) ==
    IF S = {} THEN {<<>>}
    ELSE UNION {{<<x>> \o l : l \in ListsOfSet(S \ {x})} : x \in S}

\* What the category adds to the result: nothing when nothing matched,
\* else one entry holding the distinct non-empty terms.
CategoryEntry_Unguarded(category, matches) ==
    {<<<<category, l>>>> : l \in ListsOfSet(SeqElems(StripNonEmpty(matches)))}

CategoryEntry(category, matches) ==
    IF matches = <<>> THEN {EmptyDict}
    ELSE LET terms == SeqElems(StripNonEmpty(matches))
         IN  IF terms = {} THEN {EmptyDict}
             ELSE {<<<<category, l>>>> : l \in ListsOfSet(terms)}

\* The results possible for the categories from the c-th on.
RECURSIVE CategorizeFrom(_, _, _)
CategorizeFrom(taxonomy, text, c) ==
    IF c > Len(taxonomy) THEN {EmptyDict}
    ELSE LET category == taxonomy[c][1]
             matches == CategoryMatches(taxonomy[c][2], text, 1)
         IN  {e \o d : e \in CategoryEntry(category, matches),
                       d \in CategorizeFrom(taxonomy, text, c + 1)}

\* The outcomes possible for one call over a taxonomy.
Categorize_NoGuard(taxonomy, p) ==
    IF IsNone(p) THEN {Raise("AttributeError")}
    ELSE {Return(d) : d \in CategorizeFrom(taxonomy, str_lower(p.val), 1)}

Categorize(taxonomy, p) ==
    IF IsNone(p) \/ p.val = "" THEN {Return(EmptyDict)}
    ELSE {Return(d) : d \in CategorizeFrom(taxonomy, str_lower(p.val), 1)}

categorize_prompt(p) == Categorize(CATEGORY_PATTERNS, p)

analyze_negative_prompt(negative) == Categorize(NEGATIVE_CATEGORIES, negative)

---------------------------------------------------------------------------
(* The random module.  The state of the generator is the stream of numbers *)
(* it will deliver, kept as a tape that repeats; a draw below n reduces    *)
(* the next number of the tape modulo n and moves the tape on.  Seeding    *)
(* the generator sets the tape.                                            *)

Seeds == [1..TapeLen -> 0..(RandMax - 1)]

\* _randbelow(n), n > 0
randbelow(g, n) == [value |-> Head(g) % n, rng |-> Tail(g) \o <<Head(g)>>]

\* random.choice(seq)
random_choice(g, seq) ==
    IF seq = <<>> THEN [ret |-> Raise("IndexError"), rng |-> g]
    ELSE LET d == randbelow(g, Len(seq))
         IN  [ret |-> Return(seq[d.value + 1]), rng |-> d.rng]

\* random.randint(a, b), a <= b
random_randint(g, a, b) ==
    LET d == randbelow(g, b - a + 1)
    IN  [ret |-> Return(a + d.value), rng |-> d.rng]

\* The selection loop of random.sample over a pool of n: the i-th pick
\* (from 0) is pool[j] for a draw j below n - i, and the last element
\* still in play takes its place.
RECURSIVE SampleFrom(_, _, _, _)
SampleFrom(g, pool, k, i) ==
    IF i = k THEN [value |-> <<>>, rng |-> g]
    ELSE LET n == Len(pool)
             d == randbelow(g, n - i)
             j == d.value + 1
             next == [pool EXCEPT ![j] = pool[n - i]]
             rest == SampleFrom(d.rng, next, k, i + 1)
         IN  [value |-> <<pool[j]>> \o rest.value, rng |-> rest.rng]

\* k draws of random.choice, as random.choices(pool, k=k) makes them
RECURSIVE ChoicesFrom(_, _, _)
ChoicesFrom(g, pool, k) ==
    IF k = 0 THEN [value |-> <<>>, rng |-> g]
    ELSE LET c == random_choice(g, pool)
             rest == ChoicesFrom(c.rng, pool, k - 1)
         IN  [value |-> <<c.ret.value>> \o rest.value, rng |-> rest.rng]

random_sample_WithReplacement(g, population, k) ==
    IF k > Len(population)
    THEN [ret |-> Raise("ValueError"), rng |-> g]
    ELSE LET s == ChoicesFrom(g, population, k)
         IN  [ret |-> Return(s.value), rng |-> s.rng]

\* random.sample(population, k): k elements without replacement
random_sample(g, population, k) ==
    IF k > Len(population)
    THEN [ret |-> Raise("ValueError"), rng |-> g]
    ELSE LET s == SampleFrom(g, population, k, 0)
         IN  [ret |-> Return(s.value), rng |-> s.rng]

---------------------------------------------------------------------------
(* app_2.py: the variant table and its lookup.                             *)

\* The entries of the dict display, as written ("standing" is written
\* twice).  One variant of "soft lighting" is written in Chinese
\* characters in the source; it stands here in ASCII transcription.
VARIATION_MAP_ITEMS ==
  <<
    <<"sitting", <<"sitting", "seated", "sit", "sits", "sitting down", "sits down">> >>,
    <<"standing", <<"standing", "stand", "stands", "standing up", "stands up">> >>,
    <<"lying", <<"lying", "lay", "lying down", "lies", "laid", "lies down">> >>,
    <<"realistic photograph", <<
          "realistic photograph", "photorealistic", "realistic photo", "photograph",
          "photo of", "realistic", "real life photo">> >>,
    <<"large breasts", <<
          "large breasts", "big breasts", "huge breasts", "massive breasts",
          "big breast">> >>,
    <<"smile", <<"smile", "smiling", "smiles", "smiled", "smiling face">> >>,
    <<"naked", <<
          "naked", "nude", "bare", "undressed", "unclothed", "without clothes">> >>,
    <<"topless", <<"topless", "top less", "top-less", "breasts exposed">> >>,
    <<"outdoor", <<"outdoor", "outside", "outdoors", "outside", "exterior">> >>,
    <<"beach", <<"beach", "seaside", "shore", "sand", "tropical beach", "beachside">> >>,
    <<"sunset", <<"sunset", "sundown", "golden hour", "dusk", "sunset time">> >>,
    <<"bikini", <<"bikini", "swimsuit", "swimwear", "bikini bottom", "bikini top">> >>,
    <<"pinup", <<"pinup pose", "pin-up", "pinup", "pin-up style">> >>,
    <<"athletic", <<"athletic", "fit", "toned", "fitness", "sporty">> >>,
    <<"curvy", <<
          "curvy", "curvaceous", "hourglass figure", "voluptuous", "curvaceous figure">> >>,
    <<"blonde", <<"blonde", "blond", "yellow hair", "golden hair", "fair hair">> >>,
    <<"brunette", <<"brunette", "brown hair", "chestnut hair", "dark brown hair">> >>,
    <<"red hair", <<"red hair", "auburn hair", "ginger hair", "redhead">> >>,
    <<"long hair", <<
          "long hair", "very long hair", "waist length hair", "flowing hair">> >>,
    <<"short hair", <<"short hair", "short styled hair", "bob cut", "pixie cut">> >>,
    <<"blue eyes", <<"blue eyes", "azure eyes", "cerulean eyes", "sapphire eyes">> >>,
    <<"green eyes", <<"green eyes", "emerald eyes", "jade eyes", "forest green eyes">> >>,
    <<"standing", <<"standing", "stands", "upright", "on feet">> >>,
    <<"kneeling", <<"kneeling", "kneel", "kneeling down", "on knees">> >>,
    <<"squatting", <<"squatting", "squat", "crouching", "in a squat">> >>,
    <<"from behind", <<"from behind", "rear view", "back view", "seen from behind">> >>,
    <<"from above", <<"from above", "bird view", "aerial view", "overhead">> >>,
    <<"close-up", <<"close-up", "closeup", "close up", "tight shot">> >>,
    <<"full body", <<"full body", "full shot", "entire figure", "whole body">> >>,
    <<"portrait", <<"portrait", "portrait shot", "face focus", "head and shoulders">> >>,
    <<"studio", <<"studio", "photo studio", "indoor studio", "controlled studio">> >>,
    <<"indoor", <<"indoor", "inside", "indoors", "interior">> >>,
    <<"forest", <<"forest", "woods", "trees", "woodland", "forested">> >>,
    <<"dynamic lighting", <<
          "dynamic lighting", "dramatic lighting", "striking lighting", "chiaroscuro">> >>,
    <<"soft lighting", <<
          "soft lighting", "rouhe guangxian", "gentle lighting", "diffused light">> >>,
    <<"natural lighting", <<
          "natural lighting", "daylight", "sunlight", "natural light">> >>
  >>

\* The dict a display {k1: v1, k2: v2, ...} builds: a key written again
\* takes the later value.
RECURSIVE DictDisplay(_, _)
DictDisplay(items, n) ==
    IF n = 0 THEN EmptyDict
    ELSE DictSet(DictDisplay(items, n - 1), items[n][1], items[n][2])

VARIATION_MAP_FirstDefinition ==
    DictDisplay([i \in 1..Len(VARIATION_MAP_ITEMS) |->
                    VARIATION_MAP_ITEMS[Len(VARIATION_MAP_ITEMS) + 1 - i]],
                Len(VARIATION_MAP_ITEMS))

VARIATION_MAP == DictDisplay(VARIATION_MAP_ITEMS, Len(VARIATION_MAP_ITEMS))

\* get_random_variation(term) with the generator in state g: the value
\* returned and the generator afterwards.
get_random_variation_DefaultLowercased(t, g) ==
    random_choice(g, DictGetDefault(VARIATION_MAP, str_lower(t), <<str_lower(t)>>))

get_random_variation_CaseSensitive(t, g) ==
    random_choice(g, DictGetDefault(VARIATION_MAP, t, <<t>>))

get_random_variation(t, g) ==
    random_choice(g, DictGetDefault(VARIATION_MAP, str_lower(t), <<t>>))

---------------------------------------------------------------------------
(* app_2.py and app.py: the synthesizers.                                  *)

\* CATEGORIES of app_2.py and of app.py (the same in both): category ->
\* display label, in the order declared.  The labels stand without their
\* emoji.
CATEGORIES ==
  <<
    <<"subject", "Subject">>,
    <<"pose", "Pose/Position">>,
    <<"environment", "Environment/Setting">>,
    <<"body_features", "Body Features">>,
    <<"hair", "Hair Style/Color">>,
    <<"clothing", "Clothing/Accessories">>,
    <<"lighting", "Lighting">>,
    <<"art_style", "Art Style">>,
    <<"quality", "Quality Tags">>,
    <<"camera", "Camera/Technical">>,
    <<"composition", "Composition">>,
    <<"emotion", "Emotion/Expression">>,
    <<"skin_features", "Skin Features">>,
    <<"special_effects", "Special Effects">>
  >>

\* QUALITY_TAGS of app_2.py
app2_QUALITY_TAGS ==
    <<"masterpiece", "best quality", "highres", "absurdres", "ultra realistic",
      "sharp focus", "fine details", "highly detailed", "8k", "4k", "HDR", "realism",
      "realistic", "cinematic", "professional", "amazing quality",
      "incredible quality", "stunning", "beautiful", "gorgeous", "perfect">>

\* QUALITY_TAGS of app.py
app_QUALITY_TAGS ==
    <<"masterpiece", "best quality", "highres", "absurdres", "ultra realistic",
      "sharp focus", "fine details", "highly detailed", "8k", "4k", "HDR", "realism",
      "realistic", "cinematic", "professional", "amazing quality">>

POSE_SUGGESTIONS ==
    <<"arms above head", "hands on hips", "legs crossed", "one leg raised",
      "leaning forward", "leaning back", "twisting", "bending",
      "looking over shoulder", "head tilted", "eyes closed">>

LIGHTING_SUGGESTIONS ==
    <<"rim lighting", "backlit", "golden hour", "blue hour", "neon lights",
      "candlelight", "moonlight", "studio strobes">>

ENVIRONMENT_SUGGESTIONS ==
    <<"luxury bedroom", "hotel room", "modern apartment", "garden terrace",
      "balcony", "secluded beach", "yacht deck", "candlelit room">>

EMOTION_SUGGESTIONS ==
    <<"seductive", "confident", "playful", "mysterious", "romantic", "sensual",
      "adorable", "alluring", "provocative", "dreamy">>

\* An optional list argument: PyNone, or PyList(l).
PyList(l) == [type |-> "list", val |-> l]

\* x or default, for an optional list x
ListOr(x, default) == IF IsNone(x) \/ x.val = <<>> THEN default ELSE x.val

Min(a, b) == IF a <= b THEN a ELSE b

\* seq[:n]
Prefix(seq, n) == SubSeq(seq, 1, Min(n, Len(seq)))

\* The pool generate_variations samples its quality tags from, and how
\* many it asks for.
QualityPool(qt) == ListOr(qt, Prefix(app2_QUALITY_TAGS, QualityDefaultPool))

QualitySampleSize_Unclamped(qt) == QualitySample

QualitySampleSize(qt) == Min(QualitySample, Len(ListOr(qt, app2_QUALITY_TAGS)))

\* The items of a selections mapping, in the order its items() delivers
\* them.
RECURSIVE ItemsFrom(_, _)
ItemsFrom(sel, c) ==
    IF c > Len(sel) THEN <<>> ELSE sel[c][2] \o ItemsFrom(sel, c + 1)

\* for item in ...: parts.append(get_random_variation(item))
RECURSIVE VaryFrom(_, _, _)
VaryFrom(items, g, i) ==
    IF i > Len(items) THEN [value |-> <<>>, rng |-> g]
    ELSE LET v == get_random_variation(items[i], g)
             rest == VaryFrom(items, v.rng, i + 1)
         IN  [value |-> <<v.ret.value>> \o rest.value, rng |-> rest.rng]

\* One pass of the loop of generate_variations: the prompt string built,
\* or the exception of random.sample.
OneVariation(sel, iq, qt, g) ==
    LET q == IF iq THEN random_sample(g, QualityPool(qt), QualitySampleSize(qt))
             ELSE [ret |-> Return(<<>>), rng |-> g]
    IN  IF q.ret.kind = "raise" THEN q
        ELSE LET v == VaryFrom(ItemsFrom(sel, 1), q.rng, 1)
             IN  [ret |-> Return(str_join(", ", q.ret.value \o v.value)),
                  rng |-> v.rng]

\* The passes of `for _ in range(num_variations)` from the i-th on: the
\* list of the strings they append, or the exception that ends the call.
RECURSIVE VariationsFrom(_, _, _, _, _, _)
VariationsFrom(sel, n, iq, qt, g, i) ==
    IF i > n THEN [ret |-> Return(<<>>), rng |-> g]
    ELSE LET one == OneVariation(sel, iq, qt, g)
         IN  IF one.ret.kind = "raise" THEN one
             ELSE LET rest == VariationsFrom(sel, n, iq, qt, one.rng, i + 1)
                  IN  IF rest.ret.kind = "raise" THEN rest
                      ELSE [ret |-> Return(<<one.ret.value>> \o rest.ret.value),
                            rng |-> rest.rng]

\* generate_variations(selections, num_variations, include_quality,
\* quality_tags) of app_2.py with the generator in state g
generate_variations(sel, n, iq, qt, g) == VariationsFrom(sel, n, iq, qt, g, 1)

\* The loop of the page over CATEGORIES.items(), selected being what the
\* widget of each category holds: all_selections gets the categories with
\* a non-empty choice, in the order of CATEGORIES.
RECURSIVE AllSelectionsFrom(_, _)
AllSelectionsFrom(selected, n) ==
    IF n = 0 THEN EmptyDict
    ELSE LET d == AllSelectionsFrom(selected, n - 1)
             category == CATEGORIES[n][1]
         IN  IF selected[category] # <<>>
             THEN DictSet(d, category, selected[category])
             ELSE d

all_selections(selected) == AllSelectionsFrom(selected, Len(CATEGORIES))

\* parts.extend(items) for every non-empty items of seed_elements
RECURSIVE SeedItemsFrom(_, _)
SeedItemsFrom(sel, c) ==
    IF c > Len(sel) THEN <<>>
    ELSE (IF sel[c][2] # <<>> THEN sel[c][2] ELSE <<>>) \o SeedItemsFrom(sel, c + 1)

\* One pass of the loop of generate_fallback_variations.
OneFallbackVariation(sel, g) ==
    LET q == random_sample(g, Prefix(app_QUALITY_TAGS, FallbackPool),
                           Min(FallbackSample, Len(app_QUALITY_TAGS)))
    IN  IF q.ret.kind = "raise" THEN q
        ELSE LET pose == random_choice(q.rng, POSE_SUGGESTIONS)
                 light == random_choice(pose.rng, LIGHTING_SUGGESTIONS)
                 env == random_choice(light.rng, ENVIRONMENT_SUGGESTIONS)
             IN  [ret |-> Return(str_join(", ",
                                 q.ret.value \o SeedItemsFrom(sel, 1) \o
                                 <<pose.ret.value, light.ret.value, env.ret.value>>)),
                  rng |-> env.rng]

RECURSIVE FallbackVariationsFrom(_, _, _, _)
FallbackVariationsFrom(sel, n, g, i) ==
    IF i > n THEN [ret |-> Return(<<>>), rng |-> g]
    ELSE LET one == OneFallbackVariation(sel, g)
         IN  IF one.ret.kind = "raise" THEN one
             ELSE LET rest == FallbackVariationsFrom(sel, n, one.rng, i + 1)
                  IN  IF rest.ret.kind = "raise" THEN rest
                      ELSE [ret |-> Return(<<one.ret.value>> \o rest.ret.value),
                            rng |-> rest.rng]

\* generate_fallback_variations(seed_elements, num_variations) of app.py
\* with the generator in state g
generate_fallback_variations(sel, n, g) == FallbackVariationsFrom(sel, n, g, 1)

---------------------------------------------------------------------------
(* app_2.py and app.py: the negative prompt.                               *)

\* DEFAULT_NEGATIVE, the same string in app_2.py and app.py
DEFAULT_NEGATIVE ==
    "score_6, score_5, score_4, worst quality, low quality, bad anatomy, bad hands, deformed, ugly, disfigured, poorly drawn face, mutation, extra fingers, fewer fingers"

\* common_negatives of generate_negative_prompt in app_2.py
app2_common_negatives ==
    <<"blurry", "blurred", "pixelated", "low resolution", "compression artifacts",
      "bad anatomy", "wrong anatomy", "disfigured", "mutated",
      "extra limbs", "missing limbs", "fused fingers", "too many fingers",
      "ugly", "duplicate", "morbid", "mutilated", "poorly drawn">>

\* common_negatives of generate_negative_prompt in app.py
app_common_negatives ==
    <<"blurry", "pixelated", "low resolution", "bad anatomy",
      "mutated", "extra limbs", "disfigured", "fused fingers">>

NegativePrompt_WithReplacement(pool, lo, hi, g) ==
    LET k == random_randint(g, lo, hi)
        s == ChoicesFrom(k.rng, pool, k.ret.value)
    IN  [ret |-> Return(str_join(", ", <<DEFAULT_NEGATIVE>> \o s.value)),
         rng |-> s.rng]

\* parts = [DEFAULT_NEGATIVE]; parts.extend(random.sample(common_negatives,
\* random.randint(lo, hi))); ', '.join(parts).  The size is drawn first,
\* then the sample.
NegativePrompt(pool, lo, hi, g) ==
    LET k == random_randint(g, lo, hi)
        s == random_sample(k.rng, pool, k.ret.value)
    IN  IF s.ret.kind = "raise" THEN s
        ELSE [ret |-> Return(str_join(", ", <<DEFAULT_NEGATIVE>> \o s.ret.value)),
              rng |-> s.rng]

\* generate_negative_prompt(exclusions=None) of app_2.py; the argument is
\* not used.
app2_generate_negative_prompt(g) ==
    NegativePrompt(app2_common_negatives, NegativeMin, NegativeMax, g)

\* generate_negative_prompt() of app.py
app_generate_negative_prompt(g) ==
    NegativePrompt(app_common_negatives, NegativeMin, NegativeMax, g)

\* [generate_negative_prompt() for _ in range(n)], from the i-th on
RECURSIVE AppNegativesFrom(_, _, _)
AppNegativesFrom(n, g, i) ==
    IF i > n THEN [ret |-> Return(<<>>), rng |-> g]
    ELSE LET one == app_generate_negative_prompt(g)
         IN  IF one.ret.kind = "raise" THEN one
             ELSE LET rest == AppNegativesFrom(n, one.rng, i + 1)
                  IN  IF rest.ret.kind = "raise" THEN rest
                      ELSE [ret |-> Return(<<one.ret.value>> \o rest.ret.value),
                            rng |-> rest.rng]

RECURSIVE App2NegativesFrom(_, _, _)
App2NegativesFrom(n, g, i) ==
    IF i > n THEN [ret |-> Return(<<>>), rng |-> g]
    ELSE LET one == app2_generate_negative_prompt(g)
         IN  IF one.ret.kind = "raise" THEN one
             ELSE LET rest == App2NegativesFrom(n, one.rng, i + 1)
                  IN  IF rest.ret.kind = "raise" THEN rest
                      ELSE [ret |-> Return(<<one.ret.value>> \o rest.ret.value),
                            rng |-> rest.rng]

---------------------------------------------------------------------------
(* Python floats.  A float is an IEEE 754 double; the doubles in play are  *)
(* not negative and lie below 2^12, and each is kept by its exact value    *)
(* as a number of units of 2^-60, written in limbs of 12 bits, the least   *)
(* significant first.  An operation computes the exact result and rounds   *)
(* it to 53 significant bits, to nearest, ties to even.  A result whose    *)
(* last place lies below the unit (a value under 2^-7 that is not a        *)
(* multiple of 2^-60) is outside the model.                                *)

LimbBits == 12
LimbBase == 2 ^ LimbBits
Limbs == 6
DoubleBits == 53

FxZero == [i \in 1..Limbs |-> 0]

\* The integer n, 0 <= n < 2^12
FxOfInt(n) == [i \in 1..Limbs |-> IF i = Limbs THEN n ELSE 0]

\* a + b, limb by limb with the carry
RECURSIVE FxAddFrom(_, _, _, _)
FxAddFrom(a, b, i, carry) ==
    IF i > Limbs THEN <<>>
    ELSE LET s == a[i] + b[i] + carry
         IN  <<s % LimbBase>> \o FxAddFrom(a, b, i + 1, s \div LimbBase)

FxAdd(a, b) == FxAddFrom(a, b, 1, 0)

\* a divided by the integer n > 0, from the most significant limb down:
\* the quotient in units, and the remainder.
RECURSIVE FxDivFrom(_, _, _, _)
FxDivFrom(a, n, i, rem) ==
    IF i = 0 THEN [q |-> <<>>, rem |-> rem]
    ELSE LET cur == rem * LimbBase + a[i]
             rest == FxDivFrom(a, n, i - 1, cur % n)
         IN  [q |-> rest.q \o <<cur \div n>>, rem |-> rest.rem]

FxDiv(a, n) == FxDivFrom(a, n, Limbs, 0)

\* The number of bits of a limb, and of a number
LimbLen(x) ==
    IF x = 0 THEN 0 ELSE CHOOSE k \in 1..LimbBits : 2 ^ (k - 1) <= x /\ x < 2 ^ k

FxLen(a) ==
    IF a = FxZero THEN 0
    ELSE LET top == CHOOSE i \in 1..Limbs :
                        a[i] # 0 /\ \A j \in (i + 1)..Limbs : a[j] = 0
         IN  (top - 1) * LimbBits + LimbLen(a[top])

\* The bit of a at place p, the least significant being place 1
FxBit(a, p) == (a[(p - 1) \div LimbBits + 1] \div (2 ^ ((p - 1) % LimbBits))) % 2

\* a with its t lowest bits cleared
FxTruncate(a, t) ==
    [i \in 1..Limbs |->
        IF i * LimbBits <= t THEN 0
        ELSE IF (i - 1) * LimbBits >= t THEN a[i]
        ELSE (a[i] \div (2 ^ (t - (i - 1) * LimbBits))) * (2 ^ (t - (i - 1) * LimbBits))]

\* The number whose only bit is at place p
FxOneAt(p) ==
    [i \in 1..Limbs |->
        IF i = (p - 1) \div LimbBits + 1 THEN 2 ^ ((p - 1) % LimbBits) ELSE 0]

\* The double nearest to the exact value a, or to a value between a and
\* the next unit when `inexact`: the t bits beyond the 53rd are dropped,
\* and the last place kept goes up when the dropped part is above half of
\* it, or is half of it and the last place is odd.
FxRoundAt(a, t, inexact) ==
    LET above == \/ inexact
                 \/ \E p \in 1..(t - 1) : FxBit(a, p) = 1
    IN  IF FxBit(a, t) = 1 /\ (above \/ FxBit(a, t + 1) = 1)
        THEN FxAdd(FxTruncate(a, t), FxOneAt(t + 1))
        ELSE FxTruncate(a, t)

FxRound(a, inexact) ==
    IF FxLen(a) <= DoubleBits THEN a
    ELSE FxRoundAt(a, FxLen(a) - DoubleBits, inexact)

\* a < b
FxLess(a, b) ==
    \E i \in 1..Limbs : a[i] < b[i] /\ \A j \in (i + 1)..Limbs : a[j] = b[j]

---------------------------------------------------------------------------
(* app.py: the page.  Python values that may be of any type (what the      *)
(* service replies, what the session stores) carry their type:             *)
(* PyNone, PyStr(s), PyInt(n), PyList(<<values>>), PyDict(<<key, value>>   *)
(* pairs).                                                                 *)

PyInt(n) == [type |-> "int", val |-> n]
PyDict(d) == [type |-> "dict", val |-> d]
PyFloat(fx) == [type |-> "float", val |-> fx]

\* bool(v)
Truthy(v) ==
    CASE v.type = "NoneType" -> FALSE
      [] v.type = "str" -> v.val # ""
      [] v.type = "int" -> v.val # 0
      [] v.type = "float" -> v.val # FxZero
      [] v.type = "list" -> v.val # <<>>
      [] v.type = "dict" -> v.val # <<>>

\* v[k] for a key k of a dict or an index k (from 0) of a list
GetItem(v, k) ==
    CASE v.type = "dict" ->
            IF k.type = "str" /\ DictHas(v.val, k.val)
            THEN Return(DictGet(v.val, k.val))
            ELSE Raise("KeyError")
      [] v.type = "list" ->
            IF k.type # "int" THEN Raise("TypeError")
            ELSE IF k.val < Len(v.val) THEN Return(v.val[k.val + 1])
            ELSE Raise("IndexError")
      [] v.type = "str" ->
            IF k.type # "int" THEN Raise("TypeError")
            ELSE IF k.val < Len(v.val) THEN Return(PyStr(Ch(v.val, k.val + 1)))
            ELSE Raise("IndexError")
      [] OTHER -> Raise("TypeError")

\* k in v
Contains(v, k) ==
    CASE v.type = "dict" -> Return(DictHas(v.val, k))
      [] v.type = "list" -> Return(\E i \in 1..Len(v.val) : v.val[i] = PyStr(k))
      [] v.type = "str" -> Return(\E i \in 1..Len(v.val) :
                                     i + Len(k) - 1 <= Len(v.val)
                                     /\ SubSeq(v.val, i, i + Len(k) - 1) = k)
      [] OTHER -> Raise("TypeError")

\* The JSON documents the service is taken to reply with, and the value
\* json.loads gives for each.
JSON_DOCUMENTS ==
    << <<"[{\"prompt\": \"a cat\"}, {\"prompt\": \"a dog\"}]",
         PyList(<<PyDict(<< <<"prompt", PyStr("a cat")>> >>),
                  PyDict(<< <<"prompt", PyStr("a dog")>> >>)>>)>>,
       <<"[{\"prompt\": \"a cat\", \"description\": \"new pose\"}]",
         PyList(<<PyDict(<< <<"prompt", PyStr("a cat")>>,
                            <<"description", PyStr("new pose")>> >>)>>)>>,
       <<"[{\"description\": \"no prompt\"}]",
         PyList(<<PyDict(<< <<"description", PyStr("no prompt")>> >>)>>)>>,
       <<"[\"a cat\", 7]", PyList(<<PyStr("a cat"), PyInt(7)>>)>>,
       <<"[]", PyList(<<>>)>>,
       <<"{\"prompt\": \"a cat\"}", PyDict(<< <<"prompt", PyStr("a cat")>> >>)>>,
       <<"{}", PyDict(<<>>)>>,
       <<"7", PyInt(7)>>,
       <<"0", PyInt(0)>>,
       <<"\"a cat\"", PyStr("a cat")>>,
       <<"null", PyNone>> >>

\* The whitespace a JSON document may stand in.
JsonWhitespace == {" ", "\t", "\n", "\r"}

RECURSIVE JsonStart(_, _)
JsonStart(s, i) ==
    IF i > Len(s) \/ Ch(s, i) \notin JsonWhitespace THEN i ELSE JsonStart(s, i + 1)

RECURSIVE JsonEnd(_, _)
JsonEnd(s, j) ==
    IF j < 1 \/ Ch(s, j) \notin JsonWhitespace THEN j ELSE JsonEnd(s, j - 1)

\* json.loads(s): the value of the document s holds, or JSONDecodeError
\* when s holds none
json_loads(s) ==
    LET i == JsonStart(s, 1)
        j == JsonEnd(s, Len(s))
        doc == IF i > j THEN "" ELSE SubSeq(s, i, j)
    IN  IF DictHas(JSON_DOCUMENTS, doc) THEN Return(DictGet(JSON_DOCUMENTS, doc))
        ELSE Raise("JSONDecodeError")

\* The mark of a markdown fence, three backquotes in the source; the
\* backquote cannot be written in a string here, and a tilde stands for it.
Fence == "~~~"

\* content.strip() and the removal of a markdown fence
Unfenced(content) ==
    LET c == str_strip(content)
    IN  IF str_startswith(c, Fence \o "json")
        THEN SliceBetween(c, FenceJsonLen, FenceLen)
        ELSE IF str_startswith(c, Fence) THEN SliceBetween(c, FenceLen, FenceLen)
        ELSE c

\* What requests.post comes to: an exception, or a response with a status
\* code and a body; response.json() gives body, a value or an exception.
Response(status, body) == [kind |-> "response", status_code |-> status, body |-> body]

\* The body of a chat completion with the given message content
ChatCompletion(content) ==
    PyDict(<< <<"choices",
                PyList(<<PyDict(<< <<"message",
                                     PyDict(<< <<"content", content>> >>)>> >>)>>)>> >>)

\* result['choices'][0]['message']['content'], or the exception on the way
ContentOf(result) ==
    LET choices == GetItem(result, PyStr("choices"))
    IN  IF choices.kind = "raise" THEN choices
        ELSE LET first == GetItem(choices.value, PyInt(0))
             IN  IF first.kind = "raise" THEN first
                 ELSE LET message == GetItem(first.value, PyStr("message"))
                      IN  IF message.kind = "raise" THEN message
                          ELSE GetItem(message.value, PyStr("content"))

\* The statements of the try block after requests.post has returned a
\* response with status 200, up to json.loads(content): the value parsed,
\* the exception raised, or NotCalled when 'choices' is not in the result.
ParsedContent(response) ==
    IF response.body.kind = "raise" THEN response.body
    ELSE LET result == response.body.value
             has == Contains(result, "choices")
         IN  IF has.kind = "raise" THEN has
             ELSE IF ~has.value THEN NotCalled
             ELSE LET content == ContentOf(result)
                  IN  IF content.kind = "raise" THEN content
                      ELSE IF content.value.type # "str" THEN Raise("AttributeError")
                      ELSE json_loads(Unfenced(content.value.val))

\* [p.get('prompt', p) if isinstance(p, dict) else p for p in parsed]
PromptsOf(parsed) ==
    [i \in 1..Len(parsed) |->
        IF parsed[i].type = "dict"
        THEN DictGetDefault(parsed[i].val, "prompt", parsed[i])
        ELSE parsed[i]]

\* call_minimax_api(prompt_text, api_key, num_variations) when
\* requests.post comes to reply.  An exception in the try block is caught
\* (and shown with st.error); the function then returns None.
call_minimax_api(key, r) ==
    IF key = "" THEN PyNone
    ELSE IF r.kind = "raise" THEN PyNone
    ELSE IF r.status_code # HttpOk THEN PyNone
    ELSE LET parsed == ParsedContent(r)
         IN  IF parsed.kind # "return" THEN PyNone
             ELSE IF parsed.value.type = "list"
                  THEN PyList(PromptsOf(parsed.value.val))
                  ELSE PyNone

\* The seed prompt generate_ai_variations builds from the selections.
ai_seed_prompt(seed_elements) ==
    LET seed_prompt == str_join(", ", SeedItemsFrom(seed_elements, 1))
    IN  IF str_strip(seed_prompt) = "" THEN "beautiful woman" ELSE seed_prompt

\* generate_ai_variations(seed_elements, api_key, num_variations)
generate_ai_variations(seed_elements, key, r) ==
    IF key = "" THEN PyNone ELSE call_minimax_api(key, r)

\* generate_ai_expansion(seed_prompt, api_key): as call_minimax_api, but
\* what json.loads gives is returned as it is.
generate_ai_expansion(key, r) ==
    IF key = "" THEN PyNone
    ELSE IF r.kind = "raise" THEN PyNone
    ELSE IF r.status_code # HttpOk THEN PyNone
    ELSE LET parsed == ParsedContent(r)
         IN  IF parsed.kind # "return" THEN PyNone ELSE parsed.value

\* {"prompt": ..., "description": ...}
Expansion(p, description) ==
    PyDict(<< <<"prompt", PyStr(p)>>, <<"description", PyStr(description)>> >>)

\* generate_fallback_expansion(seed_prompt, num_variations) with the
\* generator in state g, for a seed prompt that is a str
FallbackExpansion(seed_prompt, n, g) ==
    LET pose == random_choice(g, POSE_SUGGESTIONS)
        light == random_choice(pose.rng, LIGHTING_SUGGESTIONS)
        env == random_choice(light.rng, ENVIRONMENT_SUGGESTIONS)
        emotion == random_choice(env.rng, EMOTION_SUGGESTIONS)
        pose2 == random_choice(emotion.rng, POSE_SUGGESTIONS)
        emotion2 == random_choice(pose2.rng, EMOTION_SUGGESTIONS)
        light2 == random_choice(emotion2.rng, LIGHTING_SUGGESTIONS)
        env2 == random_choice(light2.rng, ENVIRONMENT_SUGGESTIONS)
        expansions ==
            << Expansion(seed_prompt \o ", " \o pose.ret.value, "New pose added"),
               Expansion(seed_prompt \o ", " \o light.ret.value, "New lighting"),
               Expansion(seed_prompt \o ", in " \o env.ret.value, "New setting"),
               Expansion(seed_prompt \o ", " \o emotion.ret.value, "New mood"),
               Expansion(str_join(", ", <<seed_prompt, pose2.ret.value,
                                          emotion2.ret.value, light2.ret.value,
                                          "in " \o env2.ret.value>>),
                         "Creative mix") >>
    IN  [ret |-> Return(PyList(Prefix(expansions, n))), rng |-> env2.rng]

\* seed_prompt + ", " raises TypeError when seed_prompt is no str.
generate_fallback_expansion(seed_prompt, n, g) ==
    IF seed_prompt.type # "str" THEN [ret |-> Raise("TypeError"), rng |-> g]
    ELSE FallbackExpansion(seed_prompt.val, n, g)

---------------------------------------------------------------------------
(* app.py: the widgets of the page and its handlers.                       *)

\* split_into_terms(text)
split_into_terms(text) == StripNonEmpty(re_split_chars({",", ";", "\n"}, text))

\* [x.strip() for x in manual.split(',')] if manual else []
manual_selected(manual) ==
    IF manual = "" THEN <<>>
    ELSE LET pieces == str_split(manual, ",")
         IN  [i \in 1..Len(pieces) |-> str_strip(pieces[i])]

\* A category shows a multiselect over the terms of the data, or, when the
\* data has none, a text box.
Multiselect(chosen) == [kind |-> "multiselect", selected |-> chosen]
TextInput(text) == [kind |-> "text_input", manual |-> text]

\* selected, for every category of CATEGORIES; w holds the widgets that
\* are not left empty.
SelectedOf(w) ==
    [c \in DictKeySet(CATEGORIES) |->
        IF ~DictHas(w, c) THEN <<>>
        ELSE IF DictGet(w, c).kind = "multiselect" THEN DictGet(w, c).selected
        ELSE manual_selected(DictGet(w, c).manual)]

\* seed_parts of the Generate handler
seed_parts(seed_text, sel) ==
    (IF seed_text # "" THEN split_into_terms(seed_text) ELSE <<>>)
        \o SeedItemsFrom(sel, 1)

\* seed_for_ai of the Generate handler
seed_for_ai(seed_text, sel) ==
    IF seed_text # "" THEN seed_text
    ELSE IF seed_parts(seed_text, sel) # <<>>
         THEN str_join(", ", seed_parts(seed_text, sel))
         ELSE "beautiful woman"

\* A list of str as a list of values
StrList(l) == [i \in 1..Len(l) |-> PyStr(l[i])]

\* What the Generate handler stores: the variations, whether they are the
\* fallback's, and the negative prompts, made after them.
Generated(vs, from_fallback, neg) ==
    [variations |-> vs, negative_variations |-> neg.ret.value,
     fallback |-> from_fallback, rng |-> neg.rng]

FallbackGenerated(fall, n) ==
    Generated(StrList(fall.ret.value), TRUE, AppNegativesFrom(n, fall.rng, 1))

\* `if not variations: variations = generate_fallback_variations(...)`
GeneratedFrom(from_ai, sel, n, g) ==
    IF Truthy(from_ai)
    THEN Generated(from_ai.val, FALSE, AppNegativesFrom(n, g, 1))
    ELSE FallbackGenerated(generate_fallback_variations(sel, n, g), n)

\* The body of `with st.spinner(...)` in the Generate handler, when the
\* service replies r to a request.  seed_parts and seed_for_ai are
\* computed and not used.
GenerateResults(sel, ai, key, n, r, g) ==
    IF ai /\ key # ""
    THEN GeneratedFrom(generate_ai_variations(sel, key, r), sel, n, g)
    ELSE FallbackGenerated(generate_fallback_variations(sel, n, g), n)

\* What the Expand handler comes to: the expansions or the exception
\* that ends the run of the script, and whether they are the fallback's.
Expanded(r, from_fallback, g) == [ret |-> r, fallback |-> from_fallback, rng |-> g]

FallbackExpanded(fall) == Expanded(fall.ret, TRUE, fall.rng)

\* `if not expansions: expansions = generate_fallback_expansion(pos, 5)`
ExpandedFrom(from_ai, pos, g) ==
    IF Truthy(from_ai) THEN Expanded(Return(from_ai), FALSE, g)
    ELSE FallbackExpanded(generate_fallback_expansion(pos, ExpansionCount, g))

\* The body of `with st.spinner(...)` in the Expand handler, for the
\* positive prompt pos, when the service replies r to a request.
ExpandResults(pos, ai, key, r, g) ==
    IF ai /\ key # ""
    THEN ExpandedFrom(generate_ai_expansion(key, r), pos, g)
    ELSE FallbackExpanded(generate_fallback_expansion(pos, ExpansionCount, g))

\* zip(positive_variations, negative_variations) has this many pairs.
ShownVariations(pos, neg) == Min(Len(pos), Len(neg))

\* The display of the expansions of one variation: `for j, exp in
\* enumerate(expansions)` raises TypeError when expansions, being true, is
\* a number.
ExpansionDisplay(expansions) ==
    IF Truthy(expansions) /\ expansions.type = "int" THEN Raise("TypeError")
    ELSE Return(PyNone)

\* The display of the results as the script runs: the index (from 0) of
\* the first variation whose display raises, or the number of variations
\* shown when none does.
RECURSIVE FirstBrokenFrom(_, _, _, _)
FirstBrokenFrom(shown, expanded, show, i) ==
    IF i >= shown THEN shown
    ELSE IF DictGetDefault(show, i, FALSE) /\ DictHas(expanded, i)
              /\ ExpansionDisplay(DictGet(expanded, i)) # Return(PyNone)
         THEN i
         ELSE FirstBrokenFrom(shown, expanded, show, i + 1)

\* `if st.session_state.generated and st.session_state.positive_variations`
ResultsShown(gen, pos) == gen /\ pos # <<>>

FirstBroken(gen, pos, neg, expanded, show) ==
    IF ResultsShown(gen, pos)
    THEN FirstBrokenFrom(ShownVariations(pos, neg), expanded, show, 0)
    ELSE 0

\* An exception that ended the run of the script at variation i.
PageError(exc, i) == [type |-> "exception", exc |-> exc, at |-> i]

\* The exception the display ends with, or PyNone.
DisplayEnd(broken, shown) ==
    IF broken < shown THEN PageError("TypeError", broken) ELSE PyNone

Display(gen, pos, neg, expanded, show) ==
    IF ResultsShown(gen, pos)
    THEN DisplayEnd(FirstBroken(gen, pos, neg, expanded, show),
                    ShownVariations(pos, neg))
    ELSE PyNone

\* all_prompts of the download button
all_prompts(pos, neg) ==
    PyDict(<< <<"variations",
                PyList([i \in 1..ShownVariations(pos, neg) |->
                           PyDict(<< <<"positive", pos[i]>>,
                                     <<"negative", PyStr(neg[i])>> >>)])>> >>)

---------------------------------------------------------------------------
(* The parts of the state a run does not use stay at these values.         *)

IdleCategorizer == prompt = PyNone /\ categories = NotCalled /\ exclusions = NotCalled

IdleVariant == term = "" /\ variation = NotCalled

IdleSynth ==
    /\ selections = EmptyDict
    /\ num_variations = 0
    /\ include_quality = FALSE
    /\ quality_tags = PyNone
    /\ variations = NotCalled
    /\ fallback_variations = NotCalled

IdleNegative == negative_prompts = NotCalled /\ app_negative_prompts = NotCalled

IdleApp ==
    /\ widgets = EmptyDict
    /\ seed_input = ""
    /\ use_ai = FALSE
    /\ api_key = ""
    /\ clear_prev = FALSE
    /\ service = {}
    /\ reply = NotCalled
    /\ generated = FALSE
    /\ positive_variations = <<>>
    /\ negative_variations = <<>>
    /\ generation_count = 0
    /\ expanded_prompts = EmptyDict
    /\ show_expansion = EmptyDict
    /\ page_error = PyNone
    /\ expanded_from = EmptyDict

IdleRepeat == variations_again = NotCalled /\ reseeded = FALSE

IdleCorpus ==
    /\ images = <<>>
    /\ lora_analysis = NotCalled
    /\ technical = NotCalled
    /\ analysis = NotCalled
    /\ analysis_again = NotCalled

IdleRandom == seed = <<>> /\ rng = <<>>

---------------------------------------------------------------------------
(* The prompts explored.                                                   *)

ScenarioPrompt == "1girl, sitting on a beach at sunset, masterpiece, 8k"
ScenarioNegative == "worst quality, bad anatomy, missing fingers"

\* Pieces of prompts: a word two categories list, nested-group phrases of
\* either taxonomy, upper case, blank, a word no pattern matches whole,
\* the optional character, a phrase two categories list.
Fragments ==
    {"sunset", "missing fingers", "face focus", "HDR", " ", "sunsets", "Standing",
     "sharp focus"}

PromptTexts ==
    {str_join(", ", fs) : fs \in UNION {[1..n -> Fragments] : n \in 0..MaxFragments}}

PromptInputs ==
    {PyNone} \cup {PyStr(s) : s \in PromptTexts \cup {ScenarioPrompt, ScenarioNegative}}

---------------------------------------------------------------------------
(* The categorizer applied to one prompt.                                  *)

InitCategorizer ==
    /\ prompt \in PromptInputs
    /\ categories = NotCalled
    /\ exclusions = NotCalled
    /\ IdleRepeat
    /\ IdleCorpus
    /\ IdleVariant
    /\ IdleSynth
    /\ IdleRandom
    /\ IdleNegative
    /\ IdleApp

CategorizePrompt ==
    /\ categories = NotCalled
    /\ \E r \in categorize_prompt(prompt) : categories' = r
    /\ UNCHANGED <<prompt, exclusions>>
    /\ UNCHANGED <<varsVariant, varsSynth, varsRandom>>
    /\ UNCHANGED <<varsRepeat, varsCorpus>>
    /\ UNCHANGED <<varsNegative, varsApp>>

AnalyzeNegativePrompt ==
    /\ exclusions = NotCalled
    /\ \E r \in analyze_negative_prompt(prompt) : exclusions' = r
    /\ UNCHANGED <<prompt, categories>>
    /\ UNCHANGED <<varsVariant, varsSynth, varsRandom>>
    /\ UNCHANGED <<varsRepeat, varsCorpus>>
    /\ UNCHANGED <<varsNegative, varsApp>>

NextCategorizer == CategorizePrompt \/ AnalyzeNegativePrompt

SpecCategorizer == InitCategorizer /\ [][NextCategorizer]_vars

---------------------------------------------------------------------------
(* Properties of the categorizer, checked under SpecCategorizer.           *)

\* The terms a result lists under a category; none when it has no entry.
TermsOf(d, category) ==
    IF DictHas(d, category) THEN SeqElems(DictGet(d, category)) ELSE {}

CalledOnText(r) == r.kind = "return" /\ ~IsNone(prompt) /\ prompt.val # ""

WellFormedResult(r, taxonomy) ==
    r.kind = "return" =>
        \A i \in 1..Len(r.value) :
            /\ r.value[i][1] \in DictKeySet(taxonomy)
            /\ r.value[i][2] # <<>>
            /\ \A t \in SeqElems(r.value[i][2]) : str_strip(t) # ""

\* C1: whatever the prompt, the mapping returned for either taxonomy holds
\* no category with an empty term collection, no empty or blank term, and
\* no key outside the taxonomy used.
C1_NoEmptyCategoryNoBlankTerm ==
    /\ WellFormedResult(categories, CATEGORY_PATTERNS)
    /\ WellFormedResult(exclusions, NEGATIVE_CATEGORIES)

C1_Witness ==
    /\ categories.kind = "return" /\ Len(categories.value) >= 2
    /\ exclusions.kind = "return" /\ Len(exclusions.value) >= 1

\* C2: for the empty string and for None, either function returns the
\* empty mapping and does not raise.
C2_EmptyOrNoneGivesEmptyMapping ==
    (IsNone(prompt) \/ prompt.val = "") =>
        /\ categories.kind # "not called" => categories = Return(EmptyDict)
        /\ exclusions.kind # "not called" => exclusions = Return(EmptyDict)

C2_Witness ==
    /\ IsNone(prompt)
    /\ categories = Return(EmptyDict)
    /\ exclusions = Return(EmptyDict)

\* The result lists every non-empty group of every tuple findall reports
\* for the taxonomy's patterns, lists no empty term, and lists no term twice.
FansOut(r, taxonomy) ==
    CalledOnText(r) =>
        /\ \A c \in 1..Len(taxonomy) : \A p \in 1..Len(taxonomy[c][2]) :
               \A item \in SeqElems(re_findall(taxonomy[c][2][p], str_lower(prompt.val))) :
                   item.tuple =>
                       \A g \in 1..Len(item.groups) :
                           item.groups[g] # "" =>
                               item.groups[g] \in TermsOf(r.value, taxonomy[c][1])
        /\ \A i \in 1..Len(r.value) :
               /\ "" \notin SeqElems(r.value[i][2])
               /\ Cardinality(SeqElems(r.value[i][2])) = Len(r.value[i][2])

\* C3: when a match is a tuple of captures, every non-empty capture (the
\* outer group and the nested groups alike) becomes a term of the
\* category, empty captures are dropped, and no term is listed twice.
C3_FanOutAndDedup ==
    /\ FansOut(categories, CATEGORY_PATTERNS)
    /\ FansOut(exclusions, NEGATIVE_CATEGORIES)

C3_Witness ==
    /\ prompt = PyStr("missing fingers, missing fingers")
    /\ exclusions.kind = "return"
    /\ TermsOf(exclusions.value, "anatomy") = {"missing fingers", "fingers"}
    /\ Len(DictGet(exclusions.value, "anatomy")) = Cardinality({"missing fingers", "fingers"})

\* The literal alternatives of the c-th positive category, and those that
\* two categories or more list ("sunset": environment and lighting).
LiteralsOf(c) ==
    UNION {{alt.pre : alt \in {x \in SeqElems(CATEGORY_PATTERNS[c][2][p]) : x.grp = <<>>}} :
              p \in 1..Len(CATEGORY_PATTERNS[c][2])}

SharedLiterals ==
    {l \in UNION {LiteralsOf(c) : c \in 1..Len(CATEGORY_PATTERNS)} :
        Cardinality({c \in 1..Len(CATEGORY_PATTERNS) : l \in LiteralsOf(c)}) >= 2}

\* lit stands in text as a whole word (a \b on either side).
WholeWordIn(lit, text) ==
    \E i \in 1..Len(text) : BoundaryAt(text, i) /\ LiteralAt(lit, text, i)

NegativeScenarioRun == prompt = PyStr(ScenarioNegative) /\ exclusions.kind = "return"

\* C4 as claimed: the negative scenario text yields quality = {worst
\* quality} and anatomy = {bad anatomy, missing fingers}, exactly.
C4_AsClaimed ==
    NegativeScenarioRun =>
        /\ TermsOf(exclusions.value, "quality") = {"worst quality"}
        /\ TermsOf(exclusions.value, "anatomy") = {"bad anatomy", "missing fingers"}

\* C4 as amended: the negative scenario text yields quality = {worst
\* quality} and anatomy = {bad anatomy, missing fingers, fingers}: the
\* nested group of "missing (...)" fans out into a term of its own.
C4_NegativeScenario ==
    NegativeScenarioRun =>
        /\ TermsOf(exclusions.value, "quality") = {"worst quality"}
        /\ TermsOf(exclusions.value, "anatomy")
               = {"bad anatomy", "missing fingers", "fingers"}

C4_Witness == NegativeScenarioRun /\ DictKeys(exclusions.value) = <<"quality", "anatomy">>

\* C5: the scenario prompt yields subject = {1girl}, pose = {sitting},
\* environment = {beach, sunset}, lighting = {sunset}, quality =
\* {masterpiece, 8k}; and in every result each category lists every match
\* of its own patterns over the whole text, whatever other categories
\* matched there.
C5_ScenarioAndIndependence ==
    /\ (prompt = PyStr(ScenarioPrompt) /\ categories.kind = "return") =>
           /\ TermsOf(categories.value, "subject") = {"1girl"}
           /\ TermsOf(categories.value, "pose") = {"sitting"}
           /\ TermsOf(categories.value, "environment") = {"beach", "sunset"}
           /\ TermsOf(categories.value, "lighting") = {"sunset"}
           /\ TermsOf(categories.value, "quality") = {"masterpiece", "8k"}
    /\ CalledOnText(categories) =>
           \A c \in 1..Len(CATEGORY_PATTERNS) :
               \A lit \in SharedLiterals \cap LiteralsOf(c) :
                   WholeWordIn(lit, str_lower(prompt.val))
                       => lit \in TermsOf(categories.value, CATEGORY_PATTERNS[c][1])

C5_Witness ==
    /\ prompt = PyStr(ScenarioPrompt)
    /\ categories.kind = "return"
    /\ "sunset" \in TermsOf(categories.value, "environment")
    /\ "sunset" \in TermsOf(categories.value, "lighting")

---------------------------------------------------------------------------
(* The variant lookup applied to one term.                                 *)

\* Every key and every variant of the table, some of them in upper or
\* mixed case, and terms the table does not know.
TermInputs ==
    DictKeySet(VARIATION_MAP)
        \cup UNION {SeqElems(VARIATION_MAP[i][2]) : i \in 1..Len(VARIATION_MAP)}
        \cup {"Sitting", "STANDING", "Red Hair", "Close-Up", "sEaTeD"}
        \cup {"1girl", "Dancing", "", "standsing"}

InitVariant ==
    /\ term \in TermInputs
    /\ variation = NotCalled
    /\ seed \in Seeds
    /\ rng = seed
    /\ IdleRepeat
    /\ IdleCorpus
    /\ IdleCategorizer
    /\ IdleSynth
    /\ IdleNegative
    /\ IdleApp

GetRandomVariation ==
    /\ variation = NotCalled
    /\ LET r == get_random_variation(term, rng)
       IN  variation' = r.ret /\ rng' = r.rng
    /\ UNCHANGED <<term, seed>>
    /\ UNCHANGED <<varsCategorizer, varsSynth>>
    /\ UNCHANGED <<varsRepeat, varsCorpus>>
    /\ UNCHANGED <<varsNegative, varsApp>>

NextVariant == GetRandomVariation

SpecVariant == InitVariant /\ [][NextVariant]_vars

---------------------------------------------------------------------------
(* One call of a synthesizer.                                              *)

\* Selections of the three first categories, in the order of CATEGORIES
\* and out of it, with one item and with several, with terms the variant
\* table knows and terms it does not.
DirectSelections ==
    { EmptyDict,
      << <<"pose", <<"kneeling">>>> >>,
      << <<"subject", <<"1girl">>>>, <<"pose", <<"sitting", "from behind">>>> >>,
      << <<"pose", <<"kneeling">>>>, <<"subject", <<"1girl">>>> >>,
      << <<"subject", <<"1girl", "Solo">>>>, <<"environment", <<"beach">>>> >>,
      << <<"environment", <<>>>>, <<"pose", <<"Standing">>>> >> }

\* The widget values of the page: every category has a list, empty when
\* nothing is chosen.
Widgets(d) == [c \in DictKeySet(CATEGORIES) |-> DictGetDefault(d, c, <<>>)]

\* The mappings handed to a synthesizer: built by the page from its
\* widgets, or written by a caller of the function.
SelectionInputs ==
    {all_selections(Widgets(d)) : d \in DirectSelections} \cup DirectSelections

QualityTagInputs ==
    { PyNone, PyList(<<>>), PyList(<<"masterpiece">>), PyList(<<"8k", "HDR">>),
      PyList(<<"8k", "8k">>), PyList(Prefix(app2_QUALITY_TAGS, 8)) }

InitSynth ==
    /\ selections \in SelectionInputs
    /\ num_variations \in 0..MaxVariations
    /\ include_quality \in BOOLEAN
    /\ quality_tags \in (IF include_quality THEN QualityTagInputs ELSE {PyList(<<>>)})
    /\ variations = NotCalled
    /\ fallback_variations = NotCalled
    /\ seed \in Seeds
    /\ rng = seed
    /\ IdleRepeat
    /\ IdleCorpus
    /\ IdleCategorizer
    /\ IdleVariant
    /\ IdleNegative
    /\ IdleApp

GenerateVariations ==
    /\ variations = NotCalled
    /\ LET r == generate_variations(selections, num_variations, include_quality,
                                    quality_tags, rng)
       IN  variations' = r.ret /\ rng' = r.rng
    /\ UNCHANGED <<selections, num_variations, include_quality, quality_tags,
                   fallback_variations, seed>>
    /\ UNCHANGED <<varsCategorizer, varsVariant>>
    /\ UNCHANGED <<varsRepeat, varsCorpus>>
    /\ UNCHANGED <<varsNegative, varsApp>>

GenerateFallbackVariations ==
    /\ fallback_variations = NotCalled
    /\ LET r == generate_fallback_variations(selections, num_variations, rng)
       IN  fallback_variations' = r.ret /\ rng' = r.rng
    /\ UNCHANGED <<selections, num_variations, include_quality, quality_tags,
                   variations, seed>>
    /\ UNCHANGED <<varsCategorizer, varsVariant>>
    /\ UNCHANGED <<varsRepeat, varsCorpus>>
    /\ UNCHANGED <<varsNegative, varsApp>>

NextSynth == GenerateVariations \/ GenerateFallbackVariations

SpecSynth == InitSynth /\ [][NextSynth]_vars

---------------------------------------------------------------------------
(* The negative prompts of one Generate.                                   *)

InitNegative ==
    /\ num_variations \in 0..MaxVariations
    /\ negative_prompts = NotCalled
    /\ app_negative_prompts = NotCalled
    /\ seed \in Seeds
    /\ rng = seed
    /\ selections = EmptyDict
    /\ include_quality = FALSE
    /\ quality_tags = PyNone
    /\ variations = NotCalled
    /\ fallback_variations = NotCalled
    /\ IdleRepeat
    /\ IdleCorpus
    /\ IdleCategorizer
    /\ IdleVariant
    /\ IdleApp

\* app_2.py: negative_variations = [generate_negative_prompt() for _ in
\* range(num_variations)]
GenerateNegativePrompts2 ==
    /\ negative_prompts = NotCalled
    /\ LET r == App2NegativesFrom(num_variations, rng, 1)
       IN  negative_prompts' = r.ret /\ rng' = r.rng
    /\ UNCHANGED <<selections, num_variations, include_quality, quality_tags,
                   variations, fallback_variations, app_negative_prompts, seed>>
    /\ UNCHANGED <<varsCategorizer, varsVariant, varsApp>>
    /\ UNCHANGED <<varsRepeat, varsCorpus>>

\* app.py: the same line of its handler
GenerateNegativePrompts ==
    /\ app_negative_prompts = NotCalled
    /\ LET r == AppNegativesFrom(num_variations, rng, 1)
       IN  app_negative_prompts' = r.ret /\ rng' = r.rng
    /\ UNCHANGED <<selections, num_variations, include_quality, quality_tags,
                   variations, fallback_variations, negative_prompts, seed>>
    /\ UNCHANGED <<varsCategorizer, varsVariant, varsApp>>
    /\ UNCHANGED <<varsRepeat, varsCorpus>>

NextNegative == GenerateNegativePrompts2 \/ GenerateNegativePrompts

SpecNegative == InitNegative /\ [][NextNegative]_vars

---------------------------------------------------------------------------
(* The page of app.py in one session.                                      *)

\* A reply of the service with the given message content
Content(c) == Response(HttpOk, Return(ChatCompletion(PyStr(c))))

GoodReply == Content("[{\"prompt\": \"a cat\"}, {\"prompt\": \"a dog\"}]")
FencedReply ==
    Content(Fence \o "json\n[{\"prompt\": \"a cat\", \"description\": \"new pose\"}]\n" \o Fence)

\* The ways a request fails: no answer, a status other than 200, a body
\* that is no JSON, a body without choices or with none, no content, and
\* a content that is no JSON document.
FailedReplies ==
    { Raise("Timeout"),
      Response(500, Raise("JSONDecodeError")),
      Response(HttpOk, Raise("JSONDecodeError")),
      Response(HttpOk, Return(PyDict(<<>>))),
      Response(HttpOk, Return(PyDict(<< <<"choices", PyList(<<>>)>> >>))),
      Response(HttpOk, Return(ChatCompletion(PyNone))),
      Content("Sorry, I cannot help with that.") }

\* Replies that are JSON documents, but no array of prompts.
OddReplies ==
    { Content("[{\"description\": \"no prompt\"}]"),
      Content("[\"a cat\", 7]"),
      Content("[]"),
      Content("{\"prompt\": \"a cat\"}"),
      Content("7"),
      Content("\"a cat\"") }

Replies == {GoodReply, FencedReply} \cup FailedReplies \cup OddReplies

\* What a session is run with: the widgets of the page (the categories
\* chosen or typed, the seed text, the API key, the AI checkbox, which is
\* disabled without a key, the checkbox "Clear previous results") and the
\* replies the service gives in it.
Page(w, text, key, ai, replies, clear) ==
    [widgets |-> w, seed_input |-> text, api_key |-> key, use_ai |-> ai,
     service |-> replies, clear_prev |-> clear]

NothingChosen == EmptyDict
TypedPose == << <<"pose", TextInput("dancing, ,kneeling")>> >>
ChosenAndTyped ==
    << <<"subject", Multiselect(<<"1girl">>)>>, <<"pose", TextInput("sitting")>> >>

Sessions ==
    { Page(NothingChosen, "", "", FALSE, {}, TRUE),
      Page(NothingChosen, "red dress; park\n, ", "", FALSE, {}, TRUE),
      Page(TypedPose, "", "key", FALSE, {}, FALSE),
      Page(ChosenAndTyped, "night city", "", FALSE, {}, TRUE),
      Page(<< <<"pose", TextInput(" ")>> >>, "", "", FALSE, {}, TRUE) }
    \cup {Page(ChosenAndTyped, "night city", "key", TRUE, {r}, TRUE) : r \in Replies}
    \cup {Page(NothingChosen, "red dress; park", "key", TRUE, {GoodReply, r}, FALSE) :
             r \in {Raise("Timeout"), Content("7"), Content("{\"prompt\": \"a cat\"}")}}
    \cup {Page(TypedPose, "", "key", TRUE, {Content("[\"a cat\", 7]"), r}, TRUE) :
             r \in {Response(500, Raise("JSONDecodeError"))}}

\* The tapes the generator is seeded with in a session.
SessionSeeds == {<<0>>, <<1, 2>>}

\* The service is called only with the AI checkbox set and a key.
RepliesFor(ai, key) == IF ai /\ key # "" THEN service ELSE {NotCalled}

all_selections_now == all_selections(SelectedOf(widgets))

InitApp ==
    /\ \E p \in Sessions :
          /\ widgets = p.widgets
          /\ seed_input = p.seed_input
          /\ api_key = p.api_key
          /\ use_ai = p.use_ai
          /\ service = p.service
          /\ clear_prev = p.clear_prev
    /\ num_variations \in 1..MaxVariations
    /\ seed \in SessionSeeds
    /\ rng = seed
    /\ reply = NotCalled
    /\ generated = FALSE
    /\ positive_variations = <<>>
    /\ negative_variations = <<>>
    /\ generation_count = 0
    /\ expanded_prompts = EmptyDict
    /\ show_expansion = EmptyDict
    /\ page_error = PyNone
    /\ expanded_from = EmptyDict
    /\ selections = EmptyDict
    /\ include_quality = FALSE
    /\ quality_tags = PyNone
    /\ variations = NotCalled
    /\ fallback_variations = NotCalled
    /\ negative_prompts = NotCalled
    /\ app_negative_prompts = NotCalled
    /\ IdleRepeat
    /\ IdleCorpus
    /\ IdleCategorizer
    /\ IdleVariant

\* st.session_state.generation_count += 1
NextGenerationCount_Restarted(count) == IF clear_prev THEN 1 ELSE count + 1

NextGenerationCount(count) == count + 1

\* The button "Generate Variations" and the run of the script it is
\* pressed in.
Generate ==
    /\ generation_count < MaxGenerations
    /\ generated' = TRUE
    /\ generation_count' = NextGenerationCount(generation_count)
    /\ \E r \in RepliesFor(use_ai, api_key) :
       \E res \in {GenerateResults(all_selections_now, use_ai, api_key,
                                    num_variations, r, rng)} :
         LET expanded == IF clear_prev THEN EmptyDict ELSE expanded_prompts
             show == IF clear_prev THEN EmptyDict ELSE show_expansion
         IN  /\ reply' = r
             /\ positive_variations' = res.variations
             /\ negative_variations' = res.negative_variations
             /\ expanded_prompts' = expanded
             /\ show_expansion' = show
             /\ expanded_from' = (IF clear_prev THEN EmptyDict ELSE expanded_from)
             /\ rng' = res.rng
             /\ page_error' = Display(TRUE, res.variations,
                                      res.negative_variations, expanded, show)
    /\ UNCHANGED <<widgets, seed_input, use_ai, api_key, service, clear_prev,
                   num_variations, seed>>
    /\ UNCHANGED <<selections, include_quality, quality_tags, variations,
                   fallback_variations, negative_prompts, app_negative_prompts>>
    /\ UNCHANGED <<varsCategorizer, varsVariant>>
    /\ UNCHANGED <<varsRepeat, varsCorpus>>

\* The variations whose Expand button the script reaches: all of them, or
\* those up to the one an exception ended the run at.
ExpandButtons ==
    IF ~ResultsShown(generated, positive_variations) THEN {}
    ELSE {i \in 0..(ShownVariations(positive_variations, negative_variations) - 1) :
            page_error = PyNone \/ i <= page_error.at}

\* The button "Expand This Prompt" of variation i.  An exception in the
\* handler ends the run of the script with the session as it was.
Expand(i) ==
    /\ i \in ExpandButtons
    /\ UNCHANGED <<widgets, seed_input, use_ai, api_key, service, clear_prev,
                   num_variations, seed, generated, positive_variations,
                   negative_variations, generation_count>>
    /\ \E r \in RepliesFor(use_ai, api_key) :
       \E res \in {ExpandResults(positive_variations[i + 1], use_ai, api_key,
                                  r, rng)} :
             /\ reply' = r
             /\ rng' = res.rng
             /\ IF res.ret.kind = "raise"
                THEN /\ page_error' = PageError(res.ret.exc, i)
                     /\ UNCHANGED <<expanded_prompts, show_expansion, expanded_from>>
                ELSE LET expansions == IF Truthy(res.ret.value) THEN res.ret.value
                                       ELSE PyList(<<>>)
                         expanded == DictSet(expanded_prompts, i, expansions)
                         show == DictSet(show_expansion, i, TRUE)
                     IN  /\ expanded_prompts' = expanded
                         /\ show_expansion' = show
                         /\ expanded_from' = DictSet(expanded_from, i,
                                                      positive_variations[i + 1])
                         /\ page_error' = Display(generated, positive_variations,
                                                  negative_variations, expanded, show)
    /\ UNCHANGED <<selections, include_quality, quality_tags, variations,
                   fallback_variations, negative_prompts, app_negative_prompts>>
    /\ UNCHANGED <<varsCategorizer, varsVariant>>
    /\ UNCHANGED <<varsRepeat, varsCorpus>>

\* The variations whose Hide button the script reaches.
HideButtons ==
    {i \in ExpandButtons :
        /\ DictGetDefault(show_expansion, i, FALSE)
        /\ DictHas(expanded_prompts, i)
        /\ (page_error = PyNone \/ i < page_error.at)}

\* The button "Hide" of variation i.
Hide(i) ==
    /\ i \in HideButtons
    /\ show_expansion' = DictSet(show_expansion, i, FALSE)
    /\ page_error' = Display(generated, positive_variations, negative_variations,
                             expanded_prompts, DictSet(show_expansion, i, FALSE))
    /\ UNCHANGED <<widgets, seed_input, use_ai, api_key, service, clear_prev,
                   num_variations, seed, rng, reply, generated,
                   positive_variations, negative_variations, generation_count,
                   expanded_prompts, expanded_from>>
    /\ UNCHANGED <<selections, include_quality, quality_tags, variations,
                   fallback_variations, negative_prompts, app_negative_prompts>>
    /\ UNCHANGED <<varsCategorizer, varsVariant>>
    /\ UNCHANGED <<varsRepeat, varsCorpus>>

\* The button "Clear Results", at the end of the results.
Clear ==
    /\ ResultsShown(generated, positive_variations)
    /\ page_error = PyNone
    /\ generated' = FALSE
    /\ positive_variations' = <<>>
    /\ negative_variations' = <<>>
    /\ generation_count' = 0
    /\ expanded_prompts' = EmptyDict
    /\ show_expansion' = EmptyDict
    /\ page_error' = PyNone
    /\ expanded_from' = EmptyDict
    /\ UNCHANGED <<widgets, seed_input, use_ai, api_key, service, clear_prev,
                   num_variations, seed, rng, reply>>
    /\ UNCHANGED <<selections, include_quality, quality_tags, variations,
                   fallback_variations, negative_prompts, app_negative_prompts>>
    /\ UNCHANGED <<varsCategorizer, varsVariant>>
    /\ UNCHANGED <<varsRepeat, varsCorpus>>

NextApp ==
    \/ Generate
    \/ \E i \in 0..(MaxVariations - 1) : Expand(i)
    \/ \E i \in 0..(MaxVariations - 1) : Hide(i)
    \/ Clear

SpecApp == InitApp /\ [][NextApp]_vars

---------------------------------------------------------------------------
(* Two calls of generate_variations with the same arguments.               *)

random_seed_Ignored(g, a) == g

\* random.seed(a): the generator is set to the state a stands for,
\* whatever its state was.
random_seed(g, a) == a

InitRepeat ==
    /\ InitSynth
    /\ num_variations > 0

\* random.seed(seed) between the calls: the generator is back in the state
\* the first call began in.
Reseed ==
    /\ variations # NotCalled
    /\ variations_again = NotCalled
    /\ ~reseeded
    /\ rng' = random_seed(rng, seed)
    /\ reseeded' = TRUE
    /\ UNCHANGED <<selections, num_variations, include_quality, quality_tags,
                   variations, fallback_variations, variations_again, seed>>
    /\ UNCHANGED <<varsCategorizer, varsVariant, varsNegative, varsApp, varsCorpus>>

\* The second call, with the arguments of the first.
GenerateVariationsAgain ==
    /\ variations # NotCalled
    /\ variations_again = NotCalled
    /\ LET r == generate_variations(selections, num_variations, include_quality,
                                    quality_tags, rng)
       IN  variations_again' = r.ret /\ rng' = r.rng
    /\ UNCHANGED <<selections, num_variations, include_quality, quality_tags,
                   variations, fallback_variations, reseeded, seed>>
    /\ UNCHANGED <<varsCategorizer, varsVariant, varsNegative, varsApp, varsCorpus>>

NextRepeat == GenerateVariations \/ Reseed \/ GenerateVariationsAgain

SpecRepeat == InitRepeat /\ [][NextRepeat]_vars

---------------------------------------------------------------------------
(* analyze_data.py: the statistics of the corpus.  The records are Python  *)
(* dicts as json.load gives them (string keys; values of any JSON type),   *)
(* and the counters are dicts whose keys are Python values.                *)

PyTuple(l) == [type |-> "tuple", val |-> l]

\* a == b for two Python values (no bool, and no int equal to a float,
\* among the values in play)
PyEq(a, b) == a.type = b.type /\ a = b

IsNumber(v) == v.type \in {"int", "float"}

\* float(v) of a number
AsFx(v) == IF v.type = "int" THEN FxOfInt(v.val) ELSE v.val

\* a + b
py_add(a, b) ==
    IF a.type = "int" /\ b.type = "int" THEN Return(PyInt(a.val + b.val))
    ELSE IF IsNumber(a) /\ IsNumber(b)
    THEN Return(PyFloat(FxRound(FxAdd(AsFx(a), AsFx(b)), FALSE)))
    ELSE Raise("TypeError")

\* sum(l): the additions from 0, left to right
RECURSIVE SumUpTo(_, _)
SumUpTo(l, i) ==
    IF i = 0 THEN Return(PyInt(0))
    ELSE LET before == SumUpTo(l, i - 1)
         IN  IF before.kind = "raise" THEN before
             ELSE py_add(before.value, l[i])

py_sum(l) == SumUpTo(l, Len(l))

\* a / n for a number a and a length n > 0: always a float
py_truediv(a, n) ==
    LET d == FxDiv(AsFx(a), n)
    IN  PyFloat(FxRound(d.q, d.rem # 0))

\* sum(l) / len(l) of a list that is not empty
Mean(l) ==
    LET s == py_sum(l)
    IN  IF s.kind = "raise" THEN s ELSE Return(py_truediv(s.value, Len(l)))

\* The characters the strings in play are made of, in the order of their
\* code points.
CodePoints == " 0123456789" \o ASCII_UPPERCASE \o "_" \o ASCII_LOWERCASE

ord(c) == CHOOSE i \in 1..Len(CodePoints) : Ch(CodePoints, i) = c

\* a < b for two strings: the first place where they differ decides
StrLess(a, b) ==
    \E i \in 1..Len(b) :
        /\ i <= Len(a) + 1
        /\ SubSeq(a, 1, i - 1) = SubSeq(b, 1, i - 1)
        /\ (i = Len(a) + 1 \/ ord(Ch(a, i)) < ord(Ch(b, i)))

\* a < b
py_less(a, b) ==
    IF a.type = "str" /\ b.type = "str" THEN Return(StrLess(a.val, b.val))
    ELSE IF a.type = "int" /\ b.type = "int" THEN Return(a.val < b.val)
    ELSE IF IsNumber(a) /\ IsNumber(b) THEN Return(FxLess(AsFx(a), AsFx(b)))
    ELSE Raise("TypeError")

\* min(l) and max(l) of a list that is not empty: the first of the least
\* (greatest) elements; one element is never compared.
RECURSIVE MinUpTo(_, _)
MinUpTo(l, i) ==
    IF i = 1 THEN Return(l[1])
    ELSE LET before == MinUpTo(l, i - 1)
         IN  IF before.kind = "raise" THEN before
             ELSE LET lt == py_less(l[i], before.value)
                  IN  IF lt.kind = "raise" THEN lt
                      ELSE IF lt.value THEN Return(l[i]) ELSE before

py_min(l) == MinUpTo(l, Len(l))

RECURSIVE MaxUpTo(_, _)
MaxUpTo(l, i) ==
    IF i = 1 THEN Return(l[1])
    ELSE LET before == MaxUpTo(l, i - 1)
         IN  IF before.kind = "raise" THEN before
             ELSE LET gt == py_less(before.value, l[i])
                  IN  IF gt.kind = "raise" THEN gt
                      ELSE IF gt.value THEN Return(l[i]) ELSE before

py_max(l) == MaxUpTo(l, Len(l))

\* sorted(l): a stable sort; two elements that cannot be compared raise.
\* Place(l, x): the sorted list l with x put after the elements not above it.
RECURSIVE Place(_, _)
Place(l, x) ==
    IF l = <<>> THEN Return(<<x>>)
    ELSE LET lt == py_less(x, l[Len(l)])
         IN  IF lt.kind = "raise" THEN lt
             ELSE IF ~lt.value THEN Return(Append(l, x))
             ELSE LET rest == Place(SubSeq(l, 1, Len(l) - 1), x)
                  IN  IF rest.kind = "raise" THEN rest
                      ELSE Return(Append(rest.value, l[Len(l)]))

RECURSIVE SortedUpTo(_, _)
SortedUpTo(l, i) ==
    IF i = 0 THEN Return(<<>>)
    ELSE LET before == SortedUpTo(l, i - 1)
         IN  IF before.kind = "raise" THEN before
             ELSE Place(before.value, l[i])

sorted(l) == SortedUpTo(l, Len(l))

\* hash(v) raises for the mutable values
Hashable(v) == v.type \notin {"list", "dict"}

\* A dict keyed by Python values, as a sequence of <<key, value>> in the
\* order of insertion.
KeyIn(d, k) == \E i \in 1..Len(d) : PyEq(d[i][1], k)

KeyIndex(d, k) == CHOOSE i \in 1..Len(d) : PyEq(d[i][1], k)

ValueOf(d, k, default) == IF KeyIn(d, k) THEN d[KeyIndex(d, k)][2] ELSE default

SetValue(d, k, v) ==
    IF KeyIn(d, k) THEN [d EXCEPT ![KeyIndex(d, k)] = <<k, v>>]
    ELSE Append(d, <<k, v>>)

\* counter[k] += 1
Increment(counter, k) == SetValue(counter, k, ValueOf(counter, k, 0) + 1)

\* Counter.most_common(n): sorted(items, key=count, reverse=True)[:n], a
\* stable sort, so that equal counts stay in the order of insertion.  The
\* entries the sort places before the j-th are those of a greater count
\* and those of the same count inserted earlier.
PlacedBefore(counter, j) ==
    {i \in 1..Len(counter) :
        \/ counter[i][2] > counter[j][2]
        \/ counter[i][2] = counter[j][2] /\ i < j}

ByCount(counter) ==
    [r \in 1..Len(counter) |->
        counter[CHOOSE j \in 1..Len(counter) :
                    Cardinality(PlacedBefore(counter, j)) = r - 1]]

most_common(counter, n) ==
    SubSeq(ByCount(counter), 1, IF Len(counter) < n THEN Len(counter) ELSE n)

\* for x in v: the elements the loop visits, or the TypeError of a value
\* that cannot be iterated
Iterate(v) ==
    CASE v.type = "list" -> Return(v.val)
      [] v.type = "str" -> Return([i \in 1..Len(v.val) |-> PyStr(Ch(v.val, i))])
      [] v.type = "dict" -> Return([i \in 1..Len(v.val) |-> PyStr(v.val[i][1])])
      [] OTHER -> Raise("TypeError")

\* v.get(key, default): only a dict has the method
py_get(v, key, default) ==
    IF v.type = "dict" THEN Return(DictGetDefault(v.val, key, default))
    ELSE Raise("AttributeError")

Unknown == PyStr("Unknown")

\* weight = lora.get('weight', 1.0)
DefaultWeight == PyFloat(FxOfInt(1))

\* The counters of analyze_loras before the first record.
NoLoras ==
    [lora_counts |-> <<>>, lora_by_base |-> <<>>,
     lora_weights |-> <<>>, combinations |-> <<>>]

\* The body of `for lora in loras` for one named lora.
CountLora(st, base, name, weight) ==
    IF ~Hashable(name) \/ ~Hashable(base) THEN Raise("TypeError")
    ELSE Return(
        [st EXCEPT
            !.lora_counts = Increment(@, name),
            !.lora_by_base =
                SetValue(@, base, Increment(ValueOf(@, base, <<>>), name)),
            !.lora_weights =
                SetValue(@, name, Append(ValueOf(@, name, <<>>), weight))])

\* for lora in loras, from the j-th on: the counters and lora_names after
\* the loop.
RECURSIVE LorasFrom(_, _, _, _, _)
LorasFrom(loras, j, base, st, lora_names) ==
    IF j > Len(loras) THEN Return([st |-> st, lora_names |-> lora_names])
    ELSE LET lora == loras[j]
             name == py_get(lora, "name", Unknown)
             weight == py_get(lora, "weight", DefaultWeight)
         IN  IF name.kind = "raise" THEN name
             ELSE IF Truthy(name.value) /\ ~PyEq(name.value, Unknown)
             THEN LET counted == CountLora(st, base, name.value, weight.value)
                  IN  IF counted.kind = "raise" THEN counted
                      ELSE LorasFrom(loras, j + 1, base, counted.value,
                                     Append(lora_names, name.value))
             ELSE LorasFrom(loras, j + 1, base, st, lora_names)

\* combo_key = tuple(sorted(lora_names))
combo_key_Unsorted(lora_names) == Return(PyTuple(lora_names))

combo_key(lora_names) ==
    LET s == sorted(lora_names)
    IN  IF s.kind = "raise" THEN s ELSE Return(PyTuple(s.value))

\* The body of `for img in images` for one record.
LorasOfImage(st, img) ==
    LET base == DictGetDefault(img.val, "baseModel", Unknown)
        loras == Iterate(DictGetDefault(img.val, "loras", PyList(<<>>)))
    IN  IF loras.kind = "raise" THEN loras
        ELSE LET after == LorasFrom(loras.value, 1, base, st, <<>>)
             IN  IF after.kind = "raise" THEN after
                 ELSE IF Len(after.value.lora_names) > 1
                 THEN LET key == combo_key(after.value.lora_names)
                      IN  IF key.kind = "raise" THEN key
                          ELSE Return([after.value.st EXCEPT
                                  !.combinations = Increment(@, key.value)])
                 ELSE Return(after.value.st)

RECURSIVE LorasUpTo(_, _)
LorasUpTo(imgs, i) ==
    IF i = 0 THEN Return(NoLoras)
    ELSE LET before == LorasUpTo(imgs, i - 1)
         IN  IF before.kind = "raise" THEN before
             ELSE LorasOfImage(before.value, imgs[i])

\* {name: sum(weights)/len(weights) for name, weights in lora_weights.items()}
AvgWeightsUpTo(lora_weights, i) ==
    LET raised == {k \in 1..i : Mean(lora_weights[k][2]).kind = "raise"}
    IN  IF raised # {}
        THEN Mean(lora_weights[CHOOSE k \in raised : \A l \in raised : k <= l][2])
        ELSE Return([k \in 1..i |->
                        <<lora_weights[k][1], Mean(lora_weights[k][2]).value>>])

MostCommonLoras == 50
TopCombinations == 20

analyze_loras(imgs) ==
    LET st == LorasUpTo(imgs, Len(imgs))
    IN  IF st.kind = "raise" THEN st
        ELSE LET avg_weights ==
                     AvgWeightsUpTo(st.value.lora_weights,
                                    Len(st.value.lora_weights))
             IN  IF avg_weights.kind = "raise" THEN avg_weights
                 ELSE Return(
                     [counts |-> most_common(st.value.lora_counts, MostCommonLoras),
                      by_base |-> st.value.lora_by_base,
                      avg_weights |-> avg_weights.value,
                      top_combinations |->
                          most_common(st.value.combinations, TopCombinations)])

\* The sampler counter and the two lists after `for img in images`.
NoSettings == [samplers |-> <<>>, steps |-> <<>>, cfg_scales |-> <<>>]

SettingsOfImage(st, img) ==
    LET sampler == DictGetDefault(img.val, "sampler", PyNone)
        steps == DictGetDefault(img.val, "steps", PyNone)
        cfgScale == DictGetDefault(img.val, "cfgScale", PyNone)
    IN  IF Truthy(sampler) /\ ~Hashable(sampler) THEN Raise("TypeError")
        ELSE Return(
            [samplers |-> IF Truthy(sampler) THEN Increment(st.samplers, sampler)
                          ELSE st.samplers,
             steps |-> IF Truthy(steps) THEN Append(st.steps, steps)
                       ELSE st.steps,
             cfg_scales |-> IF Truthy(cfgScale) THEN Append(st.cfg_scales, cfgScale)
                            ELSE st.cfg_scales])

RECURSIVE SettingsUpTo(_, _)
SettingsUpTo(imgs, i) ==
    IF i = 0 THEN Return(NoSettings)
    ELSE LET before == SettingsUpTo(imgs, i - 1)
         IN  IF before.kind = "raise" THEN before
             ELSE SettingsOfImage(before.value, imgs[i])

\* sum(l)/len(l) if l else 0
MeanOrZero(l) == IF l = <<>> THEN Return(PyInt(0)) ELSE Mean(l)

\* (min(l) if l else 0, max(l) if l else 0)
RangeOrZero(l) ==
    IF l = <<>> THEN Return(PyTuple(<<PyInt(0), PyInt(0)>>))
    ELSE LET lo == py_min(l)
             hi == py_max(l)
         IN  IF lo.kind = "raise" THEN lo
             ELSE IF hi.kind = "raise" THEN hi
             ELSE Return(PyTuple(<<lo.value, hi.value>>))

MostCommonSamplers == 20

analyze_technical_settings(imgs) ==
    LET st == SettingsUpTo(imgs, Len(imgs))
    IN  IF st.kind = "raise" THEN st
        ELSE LET steps_avg == MeanOrZero(st.value.steps)
                 steps_range == RangeOrZero(st.value.steps)
                 cfg_avg == MeanOrZero(st.value.cfg_scales)
                 cfg_range == RangeOrZero(st.value.cfg_scales)
             IN  IF steps_avg.kind = "raise" THEN steps_avg
                 ELSE IF steps_range.kind = "raise" THEN steps_range
                 ELSE IF cfg_avg.kind = "raise" THEN cfg_avg
                 ELSE IF cfg_range.kind = "raise" THEN cfg_range
                 ELSE Return(
                     [samplers |-> most_common(st.value.samplers, MostCommonSamplers),
                      steps_avg |-> steps_avg.value,
                      steps_range |-> steps_range.value,
                      cfg_avg |-> cfg_avg.value,
                      cfg_range |-> cfg_range.value])

\* sub in s, for two strings
IsSubstring(sub, s) ==
    \E i \in 1..(Len(s) - Len(sub) + 1) : SubSeq(s, i, i + Len(sub) - 1) = sub

\* extract_variations: variation_map
variation_map ==
    <<<<"sitting", <<"seated", "sit", "sits", "sitting down">>>>,
      <<"standing", <<"stand", "stands", "standing up">>>>,
      <<"lying", <<"lay", "lying down", "lies", "laid">>>>,
      <<"realistic", <<"realistic", "photorealistic", "photograph", "photo", "real life">>>>,
      <<"large breasts", <<"large breasts", "big breasts", "big breast", "huge breasts">>>>,
      <<"smile", <<"smiling", "smile", "smiles", "smiled">>>>,
      <<"naked", <<"naked", "nude", "bare", "undressed", "unclothed">>>>,
      <<"topless", <<"topless", "top less", "no top">>>>,
      <<"outdoor", <<"outdoor", "outside", "outdoors", "outside">>>>,
      <<"indoor", <<"indoor", "inside", "indoors", "inside">>>>,
      <<"beach", <<"beach", "seaside", "shore", "sand">>>>,
      <<"sunset", <<"sunset", "sundown", "golden hour", "dusk">>>>>>

\* The entries of variation_map of which the prompt holds a variant: the
\* loop over variation_map for one prompt gives each of these canonical
\* terms all its variants.
Matched(text) ==
    SelectSeq(variation_map,
              LAMBDA e : \E i \in 1..Len(e[2]) : IsSubstring(e[2][i], str_lower(text)))

RECURSIVE MatchedUpTo(_, _)
MatchedUpTo(prompts, i) ==
    IF i = 0 THEN <<>> ELSE MatchedUpTo(prompts, i - 1) \o Matched(prompts[i])

\* The entries of a sequence once each, in the order of their first places
FirstPlace(l, x) == CHOOSE i \in 1..Len(l) : l[i] = x /\ \A j \in 1..(i - 1) : l[j] # x

OnceEach(l) ==
    [n \in 1..Cardinality(SeqElems(l)) |->
        CHOOSE x \in SeqElems(l) :
            Cardinality({y \in SeqElems(l) : FirstPlace(l, y) < FirstPlace(l, x)}) = n - 1]

\* `variations` after the loop over the prompts (an empty prompt is
\* skipped, and holds no variant): canonical term -> set of variants,
\* in the order in which the terms were first found
VariationsFound(prompts) ==
    LET entries == OnceEach(MatchedUpTo(prompts, Len(prompts)))
    IN  [n \in 1..Len(entries) |-> <<entries[n][1], SeqElems(entries[n][2])>>]

\* {k: list(v) for k, v in variations.items()}: each set in an order its
\* hashing decides
RECURSIVE ListedFrom(_, _)
ListedFrom(found, i) ==
    IF i > Len(found) THEN {EmptyDict}
    ELSE {<<<<found[i][1], l>>>> \o d :
              l \in ListsOfSet(found[i][2]),
              d \in ListedFrom(found, i + 1)}

\* The results possible for extract_variations(all_prompts)
extract_variations(prompts) ==
    ListedFrom(VariationsFound(prompts), 1)

\* categorize_prompt / analyze_negative_prompt on a value of any type: a
\* false value gives {}, and only a string has lower()
CategorizeValue(taxonomy, v) ==
    IF v.type \in {"NoneType", "str"} THEN Categorize(taxonomy, v)
    ELSE IF ~Truthy(v) THEN {Return(EmptyDict)}
    ELSE {Raise("AttributeError")}

Field(img, key) == DictGetDefault(img.val, key, PyNone)

\* The body of `for img in images` of main: the annotations possible for
\* one record
Annotate(img) ==
    LET positive == DictGetDefault(img.val, "positivePrompt", PyStr(""))
        negative == DictGetDefault(img.val, "negativePrompt", PyStr(""))
    IN  {IF c.kind = "raise" THEN c
         ELSE IF e.kind = "raise" THEN e
         ELSE Return(
             [id |-> Field(img, "id"),
              username |-> Field(img, "username"),
              baseModel |-> Field(img, "baseModel"),
              prompt |-> positive,
              negative |-> negative,
              categories |-> c.value,
              exclusions |-> e.value,
              loras |-> DictGetDefault(img.val, "loras", PyList(<<>>)),
              checkpoint |-> Field(img, "checkpoint"),
              settings |->
                  [sampler |-> Field(img, "sampler"), steps |-> Field(img, "steps"),
                   cfgScale |-> Field(img, "cfgScale"), seed |-> Field(img, "seed"),
                   width |-> Field(img, "width"), height |-> Field(img, "height")]]) :
         c \in CategorizeValue(CATEGORY_PATTERNS, positive),
         e \in CategorizeValue(NEGATIVE_CATEGORIES, negative)}

\* `analyzed` after the loop over the first i records, or the exception
\* that ended it
RECURSIVE AnalyzedUpTo(_, _)
AnalyzedUpTo(imgs, i) ==
    IF i = 0 THEN {Return(<<>>)}
    ELSE UNION {IF before.kind = "raise" THEN {before}
                ELSE {IF a.kind = "raise" THEN a
                      ELSE Return(Append(before.value, a.value)) :
                      a \in Annotate(imgs[i])} :
                before \in AnalyzedUpTo(imgs, i - 1)}

\* prompts: the prompts that are true, in the order of the records
AllPrompts(analyzed) ==
    LET kept == SelectSeq(analyzed, LAMBDA a : Truthy(a.prompt))
    IN  [i \in 1..Len(kept) |-> kept[i].prompt.val]

\* What main comes to once the loop over the records and the two
\* statistics are done: the exception of the first of them that raised,
\* else the results possible with the variations.
Compiled(imgs, analyzed, lora_stats, technical_stats) ==
    IF analyzed.kind = "raise" THEN {analyzed}
    ELSE IF lora_stats.kind = "raise" THEN {lora_stats}
    ELSE IF technical_stats.kind = "raise" THEN {technical_stats}
    ELSE {Return(
             [metadata |->
                  [total_images |-> Len(imgs),
                   with_prompts |-> Len(AllPrompts(analyzed.value))],
              categorized_images |-> analyzed.value,
              variations |-> v,
              lora_analysis |-> lora_stats.value,
              technical_settings |-> technical_stats.value]) :
          v \in extract_variations(AllPrompts(analyzed.value))}

\* The results possible for main() over the records in `images`.  The
\* result is what main returns and writes to parsed_data.json; the
\* entries that do not depend on the records (generated_at, the two
\* taxonomies) are left out.
main(imgs) ==
    UNION {Compiled(imgs, analyzed, lora_stats, technical_stats) :
           lora_stats \in {analyze_loras(imgs)},
           technical_stats \in {analyze_technical_settings(imgs)},
           analyzed \in AnalyzedUpTo(imgs, Len(imgs))}

\* sorted(list(items)) of a set of strings
RECURSIVE SortedOfSet(_)
SortedOfSet(items) ==
    IF items = {} THEN <<>>
    ELSE LET least == CHOOSE x \in items : \A y \in items \ {x} : StrLess(x, y)
         IN  <<least>> \o SortedOfSet(items \ {least})

\* The terms of the category in the order in which the records list them
RECURSIVE ItemsUpTo(_, _, _)
ItemsUpTo(category, analyzed, i) ==
    IF i = 0 THEN <<>>
    ELSE LET before == ItemsUpTo(category, analyzed, i - 1)
             cats == analyzed[i].categories
         IN  IF DictHas(cats, category)
             THEN before \o SelectSeq(DictGet(cats, category),
                                      LAMBDA t : t \notin SeqElems(before))
             ELSE before

\* app.py / app_2.py: load_data(), the object main() wrote to
\* data/parsed_data.json, None when there is no such file
load_data(written) ==
    IF written.kind = "return" THEN written.value ELSE PyNone

get_category_items_Unsorted(category, data) ==
    IF data # PyNone /\ "categorized_images" \in DOMAIN data
    THEN ItemsUpTo(category, data.categorized_images,
                   Len(data.categorized_images))
    ELSE <<>>

\* app.py / app_2.py: get_category_items(category, data), the inventory of
\* the terms of one category
get_category_items(category, data) ==
    IF data # PyNone /\ "categorized_images" \in DOMAIN data
    THEN SortedOfSet(SeqElems(ItemsUpTo(category, data.categorized_images,
                                        Len(data.categorized_images))))
    ELSE <<>>

---------------------------------------------------------------------------
(* The statistics, run on small corpora.                                   *)

MaxRecords == 3

\* The sequences of at most MaxRecords of the given records.
Corpora(records) == UNION {[1..n -> records] : n \in 0..MaxRecords}

Lora(name) == PyDict(<<<<"name", PyStr(name)>>>>)

\* The double nearest to 0.8
Weight08 == PyFloat(<<3328, 3276, 3276, 3276, 3276, 0>>)

LoraWeighted(name, weight) ==
    PyDict(<<<<"name", PyStr(name)>>, <<"weight", weight>>>>)

Record(base, loras) ==
    PyDict(<<<<"baseModel", PyStr(base)>>, <<"loras", PyList(loras)>>>>)

\* Records whose fields have the shape the analyzer reads.
LoraRecords ==
    {Record("SDXL", <<LoraWeighted("A", Weight08), Lora("B")>>),
     Record("SDXL", <<Lora("B"), Lora("A")>>),
     Record("Pony", <<Lora("A"), Lora("C")>>),
     Record("Pony", <<Lora("A"), Lora("A")>>),
     Record("SDXL", <<Lora("C"), PyDict(<<<<"weight", PyInt(1)>>>>)>>),
     PyDict(<<<<"baseModel", PyStr("SDXL")>>>>)}

InitLoras ==
    /\ images \in Corpora(LoraRecords)
    /\ lora_analysis = NotCalled
    /\ technical = NotCalled
    /\ analysis = NotCalled
    /\ analysis_again = NotCalled
    /\ IdleCategorizer
    /\ IdleVariant
    /\ IdleSynth
    /\ IdleRandom
    /\ IdleNegative
    /\ IdleApp
    /\ IdleRepeat

AnalyzeLoras ==
    /\ lora_analysis = NotCalled
    /\ lora_analysis' = analyze_loras(images)
    /\ UNCHANGED <<images, technical, analysis, analysis_again>>
    /\ UNCHANGED <<varsCategorizer, varsVariant, varsSynth, varsNegative, varsApp,
                   varsRandom, varsRepeat>>

NextLoras == AnalyzeLoras

SpecLoras == InitLoras /\ [][NextLoras]_vars

\* Three records that list, together, one name more than the counts of
\* the result keep, each name of one letter
NamesPerRecord == (MostCommonLoras + 1) \div 3

ManyLoras(k) ==
    Record("SDXL", [i \in 1..NamesPerRecord |->
                       Lora(Ch(ASCII_UPPERCASE \o ASCII_LOWERCASE,
                               (k - 1) * NamesPerRecord + i))])

ManyLoraRecords ==
    {ManyLoras(1), ManyLoras(2), ManyLoras(3),
     Record("Pony", <<LoraWeighted("A", Weight08), Lora("Unknown"), Lora("")>>),
     PyDict(<<<<"loras", PyList(<<LoraWeighted("z", PyInt(2)),
                                  PyDict(<<<<"weight", PyInt(1)>>>>)>>)>>>>)}

\* analyze_loras on corpora of many names
InitManyLoras ==
    /\ images \in Corpora(ManyLoraRecords)
    /\ lora_analysis = NotCalled
    /\ technical = NotCalled
    /\ analysis = NotCalled
    /\ analysis_again = NotCalled
    /\ IdleCategorizer
    /\ IdleVariant
    /\ IdleSynth
    /\ IdleRandom
    /\ IdleNegative
    /\ IdleApp
    /\ IdleRepeat

NextManyLoras == AnalyzeLoras

SpecManyLoras == InitManyLoras /\ [][NextManyLoras]_vars

\* The doubles nearest to 3.3, 7.5 and 0.1
Cfg33 == PyFloat(<<3072, 3276, 3276, 3276, 1228, 3>>)
Cfg75 == PyFloat(<<0, 0, 0, 0, 2048, 7>>)
Cfg01 == PyFloat(<<2464, 2457, 2457, 2457, 409, 0>>)

Settings(sampler, steps, cfgScale) ==
    PyDict(<<<<"sampler", sampler>>, <<"steps", steps>>, <<"cfgScale", cfgScale>>>>)

\* Records whose settings are numbers and names, or absent.
SettingsRecords ==
    {Settings(PyStr("Euler a"), PyInt(20), PyInt(7)),
     Settings(PyStr("DPM"), PyInt(35), Cfg75),
     Settings(PyStr("Euler a"), PyInt(30), Cfg33),
     Settings(PyStr(""), PyInt(0), Cfg01),
     Settings(PyNone, PyNone, PyInt(0)),
     PyDict(<<<<"steps", PyInt(28)>>>>),
     PyDict(<<>>)}

InitTechnical ==
    /\ images \in Corpora(SettingsRecords)
    /\ lora_analysis = NotCalled
    /\ technical = NotCalled
    /\ analysis = NotCalled
    /\ analysis_again = NotCalled
    /\ IdleCategorizer
    /\ IdleVariant
    /\ IdleSynth
    /\ IdleRandom
    /\ IdleNegative
    /\ IdleApp
    /\ IdleRepeat

AnalyzeTechnicalSettings ==
    /\ technical = NotCalled
    /\ technical' = analyze_technical_settings(images)
    /\ UNCHANGED <<images, lora_analysis, analysis, analysis_again>>
    /\ UNCHANGED <<varsCategorizer, varsVariant, varsSynth, varsNegative, varsApp,
                   varsRandom, varsRepeat>>

NextTechnical == AnalyzeTechnicalSettings

SpecTechnical == InitTechnical /\ [][NextTechnical]_vars

---------------------------------------------------------------------------
(* main() run on a small corpus, and run a second time on the same corpus. *)

MaxImages == 2

Image(id, positivePrompt, negativePrompt) ==
    PyDict(<<<<"id", PyInt(id)>>, <<"positivePrompt", positivePrompt>>,
             <<"negativePrompt", negativePrompt>>>>)

\* Records of the shape the analyzer reads
ShapedRecords ==
    {Image(1, PyStr("face focus, sharp focus"), PyStr("bad anatomy")),
     PyDict(<<<<"id", PyInt(2)>>, <<"positivePrompt", PyStr("Standing")>>,
              <<"baseModel", PyStr("SDXL")>>,
              <<"loras", PyList(<<LoraWeighted("A", Weight08), Lora("B")>>)>>,
              <<"sampler", PyStr("Euler a")>>, <<"steps", PyInt(20)>>,
              <<"cfgScale", Cfg75>>>>),
     Image(3, PyStr("HDR, sharp focus, tattoo"), PyStr("")),
     PyDict(<<<<"id", PyInt(4)>>, <<"baseModel", PyStr("Pony")>>>>)}

\* Records with fields that are null: the analyzer reads them as absent
NullRecords ==
    {PyDict(<<<<"id", PyInt(5)>>, <<"positivePrompt", PyNone>>,
              <<"negativePrompt", PyNone>>, <<"baseModel", PyNone>>,
              <<"sampler", PyNone>>, <<"steps", PyNone>>, <<"cfgScale", PyNone>>,
              <<"loras", PyList(<<PyDict(<<<<"name", PyNone>>>>), Lora("C")>>)>>>>)}

\* Records with a field that is null or of another shape than expected
MisshapenRecords ==
    {PyDict(<<<<"id", PyInt(6)>>, <<"loras", PyNone>>>>),
     Image(7, PyInt(5), PyStr("")),
     PyDict(<<<<"id", PyInt(8)>>,
              <<"loras", PyList(<<LoraWeighted("A", PyNone)>>)>>>>),
     PyDict(<<<<"id", PyInt(9)>>, <<"steps", PyStr("20")>>>>),
     PyDict(<<<<"id", PyInt(10)>>, <<"loras", PyList(<<PyStr("A")>>)>>>>)}

InitCorpus ==
    /\ images \in UNION {[1..n -> ShapedRecords] : n \in 0..MaxImages}
    /\ lora_analysis = NotCalled
    /\ technical = NotCalled
    /\ analysis = NotCalled
    /\ analysis_again = NotCalled
    /\ IdleCategorizer
    /\ IdleVariant
    /\ IdleSynth
    /\ IdleRandom
    /\ IdleNegative
    /\ IdleApp
    /\ IdleRepeat

\* python analyze_data.py
Main ==
    /\ analysis = NotCalled
    /\ \E r \in main(images) : analysis' = r
    /\ UNCHANGED <<images, lora_analysis, technical, analysis_again>>
    /\ UNCHANGED <<varsCategorizer, varsVariant, varsSynth, varsNegative, varsApp,
                   varsRandom, varsRepeat>>

\* python analyze_data.py, once more, on the unchanged corpus
MainAgain ==
    /\ analysis # NotCalled
    /\ analysis_again = NotCalled
    /\ \E r \in main(images) : analysis_again' = r
    /\ UNCHANGED <<images, lora_analysis, technical, analysis>>
    /\ UNCHANGED <<varsCategorizer, varsVariant, varsSynth, varsNegative, varsApp,
                   varsRandom, varsRepeat>>

NextCorpus == Main \/ MainAgain

SpecCorpus == InitCorpus /\ [][NextCorpus]_vars

\* main() run once on a corpus that holds misshapen records
InitMisshapen ==
    /\ images \in UNION {[1..n -> {r \in ShapedRecords : DictHas(r.val, "loras")}
                                        \cup NullRecords \cup MisshapenRecords] :
                            n \in 0..MaxImages}
    /\ lora_analysis = NotCalled
    /\ technical = NotCalled
    /\ analysis = NotCalled
    /\ analysis_again = NotCalled
    /\ IdleCategorizer
    /\ IdleVariant
    /\ IdleSynth
    /\ IdleRandom
    /\ IdleNegative
    /\ IdleApp
    /\ IdleRepeat

NextMisshapen == Main

SpecMisshapen == InitMisshapen /\ [][NextMisshapen]_vars

---------------------------------------------------------------------------
(* Properties of the variant lookup, checked under SpecVariant.            *)

\* What get_random_variation(t) can return, over the states of the
\* generator.
PossibleVariations(t) == {get_random_variation(t, g).ret : g \in Seeds}

KeyOf(t) == str_lower(t)
HasClass(t) == DictHas(VARIATION_MAP, KeyOf(t))
ClassOf(t) == SeqElems(DictGet(VARIATION_MAP, KeyOf(t)))

\* C6: the variant lookup is total.  For a term whose lowercase form is a
\* key of the variant table get_random_variation returns a member of that
\* key's variant list; for every other term it returns the term itself,
\* character for character; it never raises.
C6_LookupIsTotal ==
    variation # NotCalled =>
        /\ variation.kind = "return"
        /\ IF HasClass(term)
           THEN variation.value \in ClassOf(term)
           ELSE variation.value = term

\* A term in mixed case that the table does not know has come back as it
\* was given.
C6_Witness ==
    /\ variation = Return(term)
    /\ ~HasClass(term)
    /\ term # str_lower(term)

\* C7: the lookup is case-insensitive on its input.  Whenever the
\* lowercase form of a term is a key of the table, the possible results
\* for the term as given are the possible results for its lowercase form,
\* and the result of the call is one of them.
C7_CaseInsensitive ==
    (variation # NotCalled /\ HasClass(term)) =>
        /\ PossibleVariations(term) = PossibleVariations(str_lower(term))
        /\ variation \in PossibleVariations(str_lower(term))

\* A term written in upper or mixed case whose lowercase form is a key
\* has been looked up and a variant other than the term has come back.
C7_Witness ==
    /\ variation.kind = "return"
    /\ HasClass(term)
    /\ term # str_lower(term)
    /\ str_lower(variation.value) # str_lower(term)

\* C8: every member string of a variant class resolves to that class.  For
\* a key k and a variant v of its list, the possible results of looking up
\* v are the possible results of looking up k.
C8_MembersResolveToTheirClass ==
    variation # NotCalled =>
        \A i \in 1..Len(VARIATION_MAP) :
            term \in SeqElems(VARIATION_MAP[i][2]) =>
                PossibleVariations(term) = PossibleVariations(VARIATION_MAP[i][1])

---------------------------------------------------------------------------
(* Properties of the synthesizers, checked under SpecSynth.                *)

IsString(x) == x \in STRING

\* C9: a synthesis call returns exactly the requested number of
\* variations.  generate_variations and generate_fallback_variations each
\* return a list of num_variations strings, for every num_variations >= 0
\* and every selections mapping, the empty one included.
C9_ExactlyRequestedCount ==
    /\ variations # NotCalled =>
           /\ variations.kind = "return"
           /\ Len(variations.value) = num_variations
           /\ \A i \in 1..Len(variations.value) : IsString(variations.value[i])
    /\ fallback_variations # NotCalled =>
           /\ fallback_variations.kind = "return"
           /\ Len(fallback_variations.value) = num_variations
           /\ \A i \in 1..Len(fallback_variations.value) :
                  IsString(fallback_variations.value[i])

\* Both synthesizers have returned two or more variations, the quality
\* tags having been sampled from a list shorter than the sample asked for.
C9_Witness ==
    /\ variations.kind = "return"
    /\ fallback_variations.kind = "return"
    /\ num_variations >= 2
    /\ include_quality
    /\ ~IsNone(quality_tags)
    /\ Len(quality_tags.val) \in 1..(QualitySample - 1)
    /\ Len(variations.value) >= 2
    /\ Len(fallback_variations.value) >= 2

\* The chosen terms in the order of the taxonomy: category after category
\* as CATEGORIES declares them, and within a category as chosen.
RECURSIVE TaxonomyOrdered(_, _)
TaxonomyOrdered(sel, c) ==
    IF c > Len(CATEGORIES) THEN <<>>
    ELSE DictGetDefault(sel, CATEGORIES[c][1], <<>>) \o TaxonomyOrdered(sel, c + 1)

\* What a chosen term may stand as in a prompt.
VariantsOf(t) == IF HasClass(t) THEN ClassOf(t) ELSE {t}

QualitySection == IF include_quality THEN QualitySampleSize(quality_tags) ELSE 0

\* A prompt string is the quality section followed by the chosen terms in
\* the order of the taxonomy, joined by ", ".
InTaxonomyOrder(s) ==
    LET terms == TaxonomyOrdered(selections, 1)
        parts == IF s = "" THEN <<>> ELSE str_split(s, ", ")
    IN  /\ Len(parts) = QualitySection + Len(terms)
        /\ \A i \in 1..QualitySection :
               i <= Len(parts) => parts[i] \in SeqElems(QualityPool(quality_tags))
        /\ \A i \in 1..Len(terms) :
               QualitySection + i <= Len(parts) =>
                   parts[QualitySection + i] \in VariantsOf(terms[i])
        /\ s = str_join(", ", parts)

\* C10: in every synthesized prompt the chosen terms stand left to right
\* in the category order of the taxonomy, and within a category in the
\* order they were chosen, whatever the key order of the selections
\* mapping; the quality section, when enabled, precedes them all, and the
\* string is the collected terms joined by ", ".
C10_TaxonomyOrder ==
    variations.kind = "return" =>
        \A i \in 1..Len(variations.value) : InTaxonomyOrder(variations.value[i])

\* The same for the mappings the page builds from its widgets.
BuiltByPage == \E d \in DirectSelections : selections = all_selections(Widgets(d))

PageOrder ==
    (variations.kind = "return" /\ BuiltByPage) =>
        \A i \in 1..Len(variations.value) : InTaxonomyOrder(variations.value[i])

---------------------------------------------------------------------------
(* Properties of the page of app.py.                                       *)

\* The variations on the page are those of the local synthesis.
LocallySynthesized == generated /\ reply = NotCalled

\* The terms of a prompt string, as joined by ", ".
PromptTerms(v) == IF v.val = "" THEN <<>> ELSE str_split(v.val, ", ")

\* C11: the custom terms of the free-text box are split on commas,
\* semicolons and newlines, trimmed, and the empty pieces discarded; every
\* such term stands in each synthesized prompt, and no prompt holds an
\* empty term, terms typed into the text box of a category included.
C11_CustomTermsAppended ==
    LocallySynthesized =>
        \A i \in 1..Len(positive_variations) :
            /\ \A t \in SeqElems(split_into_terms(seed_input)) :
                   t \in SeqElems(PromptTerms(positive_variations[i]))
            /\ "" \notin SeqElems(PromptTerms(positive_variations[i]))

\* The half of it that holds: the custom terms, as split, are trimmed and
\* none is empty.
SplitTermsTrimmed ==
    \A t \in SeqElems(split_into_terms(seed_input)) :
        /\ t # ""
        /\ t = str_strip(t)
        /\ \A j \in 1..Len(t) : Ch(t, j) \notin {",", ";", "\n"}

\* A prompt was synthesized while the free-text box held custom terms.
CustomTermsDropped ==
    /\ LocallySynthesized
    /\ split_into_terms(seed_input) # <<>>
    /\ \E i \in 1..Len(positive_variations) :
           \E t \in SeqElems(split_into_terms(seed_input)) :
               t \notin SeqElems(PromptTerms(positive_variations[i]))

\* A prompt was synthesized with an empty term from the text box of a
\* category.
EmptyTermAppended ==
    /\ LocallySynthesized
    /\ \E i \in 1..Len(positive_variations) :
           "" \in SeqElems(PromptTerms(positive_variations[i]))

---------------------------------------------------------------------------
(* Properties of the quality tags of a synthesized prompt.                 *)

\* The parts of a prompt string, as joined by ", ".
PartsOf(s) == IF s = "" THEN <<>> ELSE str_split(s, ", ")

\* The prompt s is a sample of min(3, size of the pool) tags of the pool,
\* no tag twice, followed by `rest` other parts.
StartsWithSample(s, pool, rest) ==
    LET parts == PartsOf(s)
        k == Min(QualitySample, Len(pool))
    IN  /\ Len(parts) = k + rest
        /\ \A i \in 1..k : i <= Len(parts) => parts[i] \in SeqElems(pool)
        /\ \A i, j \in 1..k :
               (i < j /\ j <= Len(parts)) => parts[i] # parts[j]

\* The creative elements the fallback appends: a pose, a lighting, an
\* environment.
FallbackCreative == 3

\* C12, as claimed: with quality tags enabled each variation starts with
\* a sample without replacement of exactly min(3, pool size) distinct
\* tags of the active pool (the list of the user when it is not empty,
\* else the default pool), and the sampling never fails.
C12_AsClaimed ==
    /\ variations.kind # "raise"
    /\ fallback_variations.kind # "raise"
    /\ (include_quality /\ variations.kind = "return") =>
           \A i \in 1..Len(variations.value) :
               StartsWithSample(variations.value[i], QualityPool(quality_tags),
                                Len(ItemsFrom(selections, 1)))
    /\ fallback_variations.kind = "return" =>
           \A i \in 1..Len(fallback_variations.value) :
               StartsWithSample(fallback_variations.value[i],
                                Prefix(app_QUALITY_TAGS, FallbackPool),
                                Len(SeedItemsFrom(selections, 1)) + FallbackCreative)

NoRepeats(l) == \A i, j \in 1..Len(l) : i < j => l[i] # l[j]

\* A sample from distinct places of the pool: every part is a tag of the
\* pool, and stands in the sample no more often than in the pool.
Occurrences(l, t) == Cardinality({i \in 1..Len(l) : l[i] = t})

FromDistinctPlaces(parts, pool) ==
    \A i \in 1..Len(parts) :
        /\ parts[i] \in SeqElems(pool)
        /\ Occurrences(parts, parts[i]) <= Occurrences(pool, parts[i])

\* generate_variations: min(3, pool size) tags from that many places of
\* the active pool, then the chosen terms.
SampleOfThree(s) ==
    LET parts == PartsOf(s)
        pool == QualityPool(quality_tags)
        k == Min(QualitySample, Len(pool))
    IN  /\ Len(parts) = k + Len(ItemsFrom(selections, 1))
        /\ FromDistinctPlaces(SubSeq(parts, 1, k), pool)
        /\ NoRepeats(pool) => NoRepeats(SubSeq(parts, 1, k))

\* generate_fallback_variations: four of the first eight default tags,
\* none twice, then the chosen terms and the creative elements.
FallbackSampleOfFour(s) ==
    LET parts == PartsOf(s)
        pool == Prefix(app_QUALITY_TAGS, FallbackPool)
    IN  /\ Len(parts) = FallbackSample + Len(SeedItemsFrom(selections, 1))
                          + FallbackCreative
        /\ \A j \in 1..FallbackSample : parts[j] \in SeqElems(pool)
        /\ NoRepeats(SubSeq(parts, 1, FallbackSample))

\* C12: no sampling of quality tags fails; with quality tags enabled each
\* variation of generate_variations starts with min(3, pool size) tags
\* from that many places of the active pool (the list of the user when
\* it is not empty, else the first ten default tags), distinct when the
\* pool names no tag twice; each variation of the fallback starts with
\* four distinct tags of the first eight default tags.
C12_SampleWithinPool ==
    /\ variations.kind # "raise"
    /\ fallback_variations.kind # "raise"
    /\ (include_quality /\ variations.kind = "return") =>
           \A i \in 1..Len(variations.value) : SampleOfThree(variations.value[i])
    /\ fallback_variations.kind = "return" =>
           \A i \in 1..Len(fallback_variations.value) :
               FallbackSampleOfFour(fallback_variations.value[i])

\* Both synthesizers have returned variations with quality tags, sampled
\* by generate_variations from a list of the user shorter than three.
C12_Witness ==
    /\ include_quality
    /\ ~IsNone(quality_tags)
    /\ Len(quality_tags.val) \in 1..(QualitySample - 1)
    /\ num_variations >= 1
    /\ variations.kind = "return"
    /\ Len(variations.value) = num_variations
    /\ fallback_variations.kind = "return"
    /\ Len(fallback_variations.value) = num_variations

\* generate_variations has sampled the same tag twice from a list of the
\* user that names it twice.
RepeatedTagSampled ==
    /\ include_quality
    /\ variations.kind = "return"
    /\ \E i \in 1..Len(variations.value) :
           ~NoRepeats(SubSeq(PartsOf(variations.value[i]), 1,
                             QualitySampleSize(quality_tags)))

---------------------------------------------------------------------------
(* Properties of two calls of the synthesizer.                             *)

SecondCallDiffers ==
    /\ ~reseeded
    /\ variations_again.kind = "return"
    /\ variations_again # variations

---------------------------------------------------------------------------
(* Properties of the negative prompts.                                     *)

\* What follows the baseline template in a negative prompt, split at ", ".
AdditionalTerms(s) ==
    str_split(SubSeq(s, Len(DEFAULT_NEGATIVE) + Len(", ") + 1, Len(s)), ", ")

\* s is the baseline template followed by k terms of the pool, 2 <= k <= 4,
\* no term twice, all joined by ", ".
BaselineAndSample(s, pool) ==
    /\ str_startswith(s, DEFAULT_NEGATIVE \o ", ")
    /\ LET added == AdditionalTerms(s)
       IN  /\ Len(added) \in NegativeMin..NegativeMax
           /\ Len(added) <= Len(pool)
           /\ \A i \in 1..Len(added) : added[i] \in SeqElems(pool)
           /\ \A i, j \in 1..Len(added) : i < j => added[i] # added[j]
           /\ s = str_join(", ", <<DEFAULT_NEGATIVE>> \o added)

\* C14: every generated negative prompt is the fixed baseline template
\* followed by k additional terms, 2 <= k <= 4, that are pairwise distinct
\* members of the common-negative pool of its file, all joined by ", ";
\* k never exceeds the size of the pool, so no sampling fails.
C14_BaselineAndDistinctTerms ==
    /\ NegativeMax <= Len(app2_common_negatives)
    /\ NegativeMax <= Len(app_common_negatives)
    /\ negative_prompts # NotCalled =>
           /\ negative_prompts.kind = "return"
           /\ Len(negative_prompts.value) = num_variations
           /\ \A i \in 1..Len(negative_prompts.value) :
                  BaselineAndSample(negative_prompts.value[i], app2_common_negatives)
    /\ app_negative_prompts # NotCalled =>
           /\ app_negative_prompts.kind = "return"
           /\ Len(app_negative_prompts.value) = num_variations
           /\ \A i \in 1..Len(app_negative_prompts.value) :
                  BaselineAndSample(app_negative_prompts.value[i], app_common_negatives)

\* Both files have generated the negative prompts of two or more
\* variations, one of them with four additional terms.
C14_Witness ==
    /\ negative_prompts.kind = "return"
    /\ app_negative_prompts.kind = "return"
    /\ Len(negative_prompts.value) >= 2
    /\ Len(app_negative_prompts.value) >= 2
    /\ \E i \in 1..Len(negative_prompts.value) :
           Len(AdditionalTerms(negative_prompts.value[i])) = NegativeMax
    /\ \E i \in 1..Len(app_negative_prompts.value) :
           Len(AdditionalTerms(app_negative_prompts.value[i])) = NegativeMin

---------------------------------------------------------------------------
(* Properties of the page when the service fails.                          *)

\* The replies that are a failure of the service: those of FailedReplies,
\* and a content that is a JSON document but no array.
NoArrayReplies ==
    FailedReplies \cup
        {Content("{\"prompt\": \"a cat\"}"), Content("7"), Content("\"a cat\"")}

\* The Generate handler has stored what the page without the service
\* stores from the same state of the generator.
FellBackOnGenerate ==
    LET pure == GenerateResults(all_selections_now, FALSE, "", num_variations,
                                NotCalled, rng)
    IN  /\ positive_variations' = pure.variations
        /\ negative_variations' = pure.negative_variations
        /\ generated'

\* The Expand handler of variation i has stored what the page without the
\* service stores from the same state of the generator, and the run of
\* the script has ended without an exception.
FellBackOnExpand(i) ==
    LET pure == ExpandResults(positive_variations[i + 1], FALSE, "", NotCalled, rng)
    IN  /\ pure.ret.kind = "return"
        /\ page_error' = PyNone
        /\ DictHas(expanded_prompts', i)
        /\ DictGet(expanded_prompts', i) = pure.ret.value

\* C15: a failure of the service is never fatal: when the call is
\* unavailable, answers with a status other than 200, times out, throws,
\* or replies with a content that is no JSON array, no exception reaches
\* the page, and Generate and Expand complete with the result of the local
\* fallback, of the shape of the pure fallback path.
C15_FailureFallsBack ==
    [][ /\ (Generate /\ reply' \in NoArrayReplies) => FellBackOnGenerate
        /\ \A i \in 0..(MaxVariations - 1) :
               (Expand(i) /\ reply' \in NoArrayReplies) => FellBackOnExpand(i) ]_vars

\* The half of it that holds: Generate falls back on every such reply.
GenerateFallsBack ==
    [][ (Generate /\ reply' \in NoArrayReplies) => FellBackOnGenerate ]_vars

\* Expand has stored a reply that is no array as the expansions of a
\* variation.
NoArrayStored ==
    /\ reply \in NoArrayReplies
    /\ \E i \in 0..(MaxVariations - 1) :
           /\ DictHas(expanded_prompts, i)
           /\ DictGet(expanded_prompts, i).type \in {"dict", "int", "str"}

\* The display of such expansions has ended the run of the script with an
\* exception.
DisplayBroken ==
    /\ page_error # PyNone
    /\ \E i \in 0..(MaxVariations - 1) :
           /\ DictHas(expanded_prompts, i)
           /\ DictGet(expanded_prompts, i).type = "int"


---------------------------------------------------------------------------
(* Properties of the LoRA statistics (SpecLoras)                           *)

LorasAnalyzed == lora_analysis # NotCalled /\ lora_analysis.kind = "return"

\* The names a record lists: those of its loras that have one, the
\* placeholder 'Unknown' left out.
ListedNames(img) ==
    LET loras == DictGetDefault(img.val, "loras", PyList(<<>>)).val
        named == SelectSeq(loras,
                     LAMBDA l : /\ DictHas(l.val, "name")
                                /\ DictGet(l.val, "name").val \notin {"", "Unknown"})
    IN  [i \in 1..Len(named) |-> DictGet(named[i].val, "name").val]

\* The same names, each as often, in any order
SameNames(a, b) ==
    /\ Len(a) = Len(b)
    /\ \A i \in 1..Len(a) : Occurrences(a, a[i]) = Occurrences(b, a[i])

NamesOfKey(key) == [i \in 1..Len(key.val) |-> key.val[i].val]

\* The records that list the names of the key
RecordsOf(key) ==
    {r \in 1..Len(images) : SameNames(ListedNames(images[r]), NamesOfKey(key))}

FirstSeen(key) == CHOOSE r \in RecordsOf(key) : \A r2 \in RecordsOf(key) : r <= r2

Ascending(names) ==
    \A p \in 1..Len(names) : \A q \in (p + 1)..Len(names) :
        ~StrLess(names[q], names[p])

RecordAB == Record("SDXL", <<LoraWeighted("A", Weight08), Lora("B")>>)
RecordBA == Record("SDXL", <<Lora("B"), Lora("A")>>)
RecordAC == Record("Pony", <<Lora("A"), Lora("C")>>)
KeyAB == PyTuple(<<PyStr("A"), PyStr("B")>>)
KeyAC == PyTuple(<<PyStr("A"), PyStr("C")>>)

\* C16: the combinations are ranked by their count, the greatest first,
\* equal counts in the order in which the combinations were first seen; the
\* key of a combination is the sorted tuple of the names, and its count is
\* the number of records that list these names in any order; every record
\* that lists several names is counted; the records {A,B}, {A,B}, {A,C}
\* give (A,B) with 2 and then (A,C) with 1.
C16_CombinationsRanked ==
    LorasAnalyzed =>
        LET top == lora_analysis.value.top_combinations
        IN  /\ \A i \in 1..Len(top) : \A j \in (i + 1)..Len(top) :
                  /\ top[i][2] >= top[j][2]
                  /\ top[i][2] = top[j][2] =>
                         FirstSeen(top[i][1]) < FirstSeen(top[j][1])
            /\ \A i \in 1..Len(top) :
                  /\ Ascending(NamesOfKey(top[i][1]))
                  /\ top[i][2] = Cardinality(RecordsOf(top[i][1]))
                  /\ top[i][2] > 0
            /\ \A r \in 1..Len(images) :
                  Len(ListedNames(images[r])) > 1 =>
                      \E i \in 1..Len(top) : r \in RecordsOf(top[i][1])
            /\ images \in {<<RecordAB, RecordBA, RecordAC>>,
                           <<RecordAB, RecordAB, RecordAC>>} =>
                  top = <<<<KeyAB, 2>>, <<KeyAC, 1>>>>

\* (A,C) is seen first, and (A,B), listed once as [A,B] and once as [B,A],
\* is ranked above it.
C16_Witness ==
    /\ LorasAnalyzed
    /\ images = <<RecordAC, RecordAB, RecordBA>>
    /\ lora_analysis.value.top_combinations = <<<<KeyAB, 2>>, <<KeyAC, 1>>>>


\* The distinct names a record lists
DistinctNames(img) == SeqElems(ListedNames(img))

\* The records that list exactly the names of the key, each at least once
RecordsListing(key) ==
    {r \in 1..Len(images) : DistinctNames(images[r]) = SeqElems(NamesOfKey(key))}

\* C17: a record adds one occurrence of a combination exactly when it
\* lists at least 2 distinct names, and the combination is the sorted tuple
\* of its distinct names: no key repeats a name, the count of a key is the
\* number of records that list exactly its names, and a record that lists
\* fewer than 2 distinct names (such as [A, A]) is under no key.
C17_DistinctNamesOnly ==
    LorasAnalyzed =>
        LET top == lora_analysis.value.top_combinations
        IN  /\ \A i \in 1..Len(top) :
                  /\ NoRepeats(NamesOfKey(top[i][1]))
                  /\ Ascending(NamesOfKey(top[i][1]))
                  /\ top[i][2] = Cardinality(RecordsListing(top[i][1]))
            /\ \A r \in 1..Len(images) :
                  Cardinality(DistinctNames(images[r])) >= 2
                      <=> \E i \in 1..Len(top) : r \in RecordsListing(top[i][1])

RecordAA == Record("Pony", <<Lora("A"), Lora("A")>>)

\* The record [A, A] alone registers the combination (A, A)
RepeatedNameRegistered ==
    /\ LorasAnalyzed
    /\ images = <<RecordAA>>
    /\ lora_analysis.value.top_combinations =
           <<<<PyTuple(<<PyStr("A"), PyStr("A")>>), 1>>>>

\* Without such records the combinations are those of distinct names
C17_HoldsWithoutRepeats ==
    (\A r \in 1..Len(images) : NoRepeats(ListedNames(images[r])))
        => C17_DistinctNamesOnly


---------------------------------------------------------------------------
(* Properties of the technical settings (SpecTechnical)                    *)

TechnicalAnalyzed == technical # NotCalled /\ technical.kind = "return"

\* A value that is there and is not zero
Counts(v) ==
    /\ v.type # "NoneType"
    /\ v.type = "int" => v.val # 0
    /\ v.type = "float" => v.val # FxZero
    /\ v.type = "str" => v.val # ""

\* The values of one setting over the records, the absent and the zero
\* ones left out
Counted(key) ==
    LET present == SelectSeq(images,
                       LAMBDA img : Counts(DictGetDefault(img.val, key, PyNone)))
    IN  [i \in 1..Len(present) |-> DictGet(present[i].val, key)]

NumLess(a, b) == FxLess(AsFx(a), AsFx(b))

Zero == PyInt(0)

\* range is (0, 0) without values, else the least and the greatest of them
RangeOf(range, values) ==
    IF values = <<>> THEN range = PyTuple(<<Zero, Zero>>)
    ELSE /\ range.val[1] \in SeqElems(values)
         /\ range.val[2] \in SeqElems(values)
         /\ \A i \in 1..Len(values) :
               /\ ~NumLess(values[i], range.val[1])
               /\ ~NumLess(range.val[2], values[i])

\* min <= mean <= max
MeanWithin(avg, range, values) ==
    IF values = <<>> THEN avg = Zero
    ELSE /\ avg.type = "float"
         /\ ~NumLess(avg, range.val[1])
         /\ ~NumLess(range.val[2], avg)

\* k units in the last place of the double v
RECURSIVE Ulps(_, _)
Ulps(v, k) ==
    IF k = 0 THEN FxZero
    ELSE FxAdd(Ulps(v, k - 1),
               FxOneAt(IF FxLen(AsFx(v)) > DoubleBits
                       THEN FxLen(AsFx(v)) - DoubleBits + 1 ELSE 1))

\* min <= mean <= max, up to one unit in the last place of max for each
\* value summed
MeanWithinRounding(avg, range, values) ==
    IF values = <<>> THEN avg = Zero
    ELSE LET tol == Ulps(range.val[2], Len(values))
         IN  /\ avg.type = "float"
             /\ ~FxLess(FxAdd(AsFx(avg), tol), AsFx(range.val[1]))
             /\ ~FxLess(FxAdd(AsFx(range.val[2]), tol), AsFx(avg))

AllInts(values) == \A i \in 1..Len(values) : values[i].type = "int"

\* The samplers counted are the names that are there, each with the number
\* of its records
SamplersCounted(samplers) ==
    /\ \A i \in 1..Len(samplers) :
          /\ Counts(samplers[i][1])
          /\ samplers[i][2] =
                 Cardinality({r \in 1..Len(images) :
                     DictGetDefault(images[r].val, "sampler", PyNone) = samplers[i][1]})
    /\ \A i \in 1..Len(Counted("sampler")) :
          \E j \in 1..Len(samplers) : samplers[j][1] = Counted("sampler")[i]

\* The call returns; absent and
\* zero values are left out; without values the mean is 0 and the range
\* (0, 0); the range is the least and the greatest counted value.
SettingsAggregated ==
    /\ technical.kind = "return"
    /\ SamplersCounted(technical.value.samplers)
    /\ RangeOf(technical.value.steps_range, Counted("steps"))
    /\ RangeOf(technical.value.cfg_range, Counted("cfgScale"))

\* C18: the aggregation leaves out absent and zero step counts and
\* guidance scales and absent sampler names, never raises, gives mean 0 and
\* range (0, 0) when nothing is counted, and else min <= mean <= max over
\* the counted values, for the step counts and for the guidance scales.
C18_MeanBetweenMinAndMax ==
    technical # NotCalled =>
        /\ SettingsAggregated
        /\ MeanWithin(technical.value.steps_avg, technical.value.steps_range,
                      Counted("steps"))
        /\ MeanWithin(technical.value.cfg_avg, technical.value.cfg_range,
                      Counted("cfgScale"))

\* What the code keeps: all of the above with min <= mean <= max for values
\* that are all integers, and min <= mean <= max up to the rounding of the
\* float sum (one unit in the last place of max for each value) for
\* values that hold floats.
MeanWithinRoundingOfSum ==
    technical # NotCalled =>
        /\ SettingsAggregated
        /\ MeanWithin(technical.value.steps_avg, technical.value.steps_range,
                      Counted("steps"))
        /\ MeanWithinRounding(technical.value.cfg_avg, technical.value.cfg_range,
                              Counted("cfgScale"))
        /\ AllInts(Counted("cfgScale")) =>
               MeanWithin(technical.value.cfg_avg, technical.value.cfg_range,
                          Counted("cfgScale"))

\* One record without counted values and two with: the means lie strictly
\* between the least and the greatest value.
MeansStrictlyBetween ==
    /\ TechnicalAnalyzed
    /\ images = <<Settings(PyNone, PyNone, PyInt(0)),
                  Settings(PyStr("Euler a"), PyInt(20), PyInt(7)),
                  Settings(PyStr("DPM"), PyInt(35), Cfg75)>>
    /\ technical.value.steps_range = PyTuple(<<PyInt(20), PyInt(35)>>)
    /\ NumLess(PyInt(20), technical.value.steps_avg)
    /\ NumLess(technical.value.steps_avg, PyInt(35))
    /\ technical.value.cfg_range = PyTuple(<<PyInt(7), Cfg75>>)
    /\ NumLess(PyInt(7), technical.value.cfg_avg)

\* Three records of guidance scale 3.3: the mean is below the least value
MeanBelowMin ==
    /\ TechnicalAnalyzed
    /\ Counted("cfgScale") = <<Cfg33, Cfg33, Cfg33>>
    /\ NumLess(technical.value.cfg_avg, technical.value.cfg_range.val[1])

\* Nothing counted: mean 0 and range (0, 0)
NothingCounted ==
    /\ TechnicalAnalyzed
    /\ Len(images) > 0
    /\ Counted("steps") = <<>>
    /\ technical.value.steps_avg = Zero
    /\ technical.value.steps_range = PyTuple(<<Zero, Zero>>)


---------------------------------------------------------------------------
(* Properties of main() (SpecMisshapen, SpecCorpus)                        *)

\* The pairs of a dict that the test keeps
RECURSIVE KeepPairs(_, _)
KeepPairs(d, keep) ==
    IF d = <<>> THEN <<>>
    ELSE (IF <<Head(d)[1], Head(d)[2].type>> \in keep THEN <<Head(d)>> ELSE <<>>)
             \o KeepPairs(Tail(d), keep)

\* The fields main and the statistics read, with the types they are read as
LoraShape ==
    {<<"name", "str">>, <<"weight", "int">>, <<"weight", "float">>}

RecordShape ==
    {<<"id", "int">>, <<"positivePrompt", "str">>, <<"negativePrompt", "str">>,
     <<"baseModel", "str">>, <<"loras", "list">>, <<"sampler", "str">>,
     <<"steps", "int">>, <<"steps", "float">>,
     <<"cfgScale", "int">>, <<"cfgScale", "float">>}

\* The lora with every field of another shape taken away
LoraAsAbsent(lora) == PyDict(KeepPairs(lora.val, LoraShape))

\* The record with every field of another shape taken away, and in its
\* loras every entry that is no dict
AsAbsent(img) ==
    LET kept == KeepPairs(img.val, RecordShape)
    IN  PyDict([i \in 1..Len(kept) |->
            IF kept[i][1] = "loras"
            THEN <<"loras",
                   PyList(LET dicts == SelectSeq(kept[i][2].val,
                                           LAMBDA l : l.type = "dict")
                          IN  [j \in 1..Len(dicts) |-> LoraAsAbsent(dicts[j])])>>
            ELSE kept[i]])

Shaped(img) == AsAbsent(img) = img

CorpusAsAbsent == [i \in 1..Len(images) |-> AsAbsent(images[i])]

\* C19: whatever field of a record is missing, null or of another shape,
\* main() completes, and its result is one that the corpus gives in which
\* these fields are absent.
C19_MisshapenReadAsAbsent ==
    analysis # NotCalled =>
        /\ analysis.kind = "return"
        /\ \E r \in main(CorpusAsAbsent) :
              /\ r.kind = "return"
              /\ r.value.lora_analysis = analysis.value.lora_analysis
              /\ r.value.technical_settings = analysis.value.technical_settings
              /\ r.value.metadata = analysis.value.metadata
              /\ \A i \in 1..Len(images) :
                    /\ r.value.categorized_images[i].categories
                           = analysis.value.categorized_images[i].categories
                    /\ r.value.categorized_images[i].exclusions
                           = analysis.value.categorized_images[i].exclusions

\* A corpus whose records have the shape read, with fields missing or not,
\* is analyzed without an exception
ShapedCorpusAnalyzed ==
    (analysis # NotCalled /\ \A i \in 1..Len(images) : Shaped(images[i]))
        => analysis.kind = "return"

\* loras: null ends main with a TypeError
NullLorasRaise ==
    /\ images = <<PyDict(<<<<"id", PyInt(6)>>, <<"loras", PyNone>>>>)>>
    /\ analysis = Raise("TypeError")

\* Each misshapen record alone ends main with an exception
EachMisshapenRaises ==
    (analysis # NotCalled /\ Len(images) = 1 /\ images[1] \in MisshapenRecords)
        => analysis.kind = "raise"

\* Null prompts, names and settings are read as absent, a null baseModel
\* is counted as a base of its own
NullBaseCounted ==
    /\ analysis # NotCalled
    /\ Len(images) = 1
    /\ images[1] \in NullRecords
    /\ analysis.kind = "return"
    /\ analysis.value.lora_analysis.by_base = <<<<PyNone, <<<<PyStr("C"), 1>>>>>>>>


BothRuns ==
    /\ analysis # NotCalled /\ analysis.kind = "return"
    /\ analysis_again # NotCalled /\ analysis_again.kind = "return"

\* category -> set of terms, for a result of the categorizer
TermSets(cats) == [i \in 1..Len(cats) |-> <<cats[i][1], SeqElems(cats[i][2])>>]

\* The term sets the categorizer can give for the prompt of a record alone
TermSetsOfPrompt(taxonomy, img, key) ==
    {TermSets(r.value) :
        r \in CategorizeValue(taxonomy, DictGetDefault(img.val, key, PyStr("")))}

\* The same for each record of the corpora, analyzed alone
OwnCategories ==
    [img \in ShapedRecords |->
        TermSetsOfPrompt(CATEGORY_PATTERNS, img, "positivePrompt")]

OwnExclusions ==
    [img \in ShapedRecords |->
        TermSetsOfPrompt(NEGATIVE_CATEGORIES, img, "negativePrompt")]

Inventories(data) ==
    [c \in DictKeySet(CATEGORY_PATTERNS) |-> get_category_items(c, data)]

\* C20: two runs of the analyzer on the same corpus give one annotation
\* for each record, in the order of the records, with the same categories
\* and the same set of terms under each, and the same inventory of terms
\* for every category; the term sets of a record are those of its own
\* prompt, whatever the other records are, and no run draws from the
\* random generator.
C20_SameTermSetsAndInventories ==
    BothRuns =>
        LET first == analysis.value.categorized_images
            second == analysis_again.value.categorized_images
        IN  /\ Len(first) = Len(images) /\ Len(second) = Len(images)
            /\ \A i \in 1..Len(images) :
                  /\ first[i].id = DictGet(images[i].val, "id")
                  /\ second[i].id = first[i].id
                  /\ second[i].prompt = first[i].prompt
                  /\ TermSets(second[i].categories) = TermSets(first[i].categories)
                  /\ TermSets(second[i].exclusions) = TermSets(first[i].exclusions)
                  /\ OwnCategories[images[i]] = {TermSets(first[i].categories)}
                  /\ OwnExclusions[images[i]] = {TermSets(first[i].exclusions)}
            /\ Inventories(analysis.value) = Inventories(analysis_again.value)
            /\ analysis_again.value.metadata = analysis.value.metadata
            /\ rng = seed

\* Two records, the second run lists the terms of one category in another
\* order than the first, and the inventory of the category is the same
\* sorted list.
C20_Witness ==
    /\ BothRuns
    /\ Len(images) = 2
    /\ images[1] # images[2]
    /\ \E i \in 1..2 :
          analysis.value.categorized_images[i].categories
              # analysis_again.value.categorized_images[i].categories
    /\ get_category_items("composition", analysis.value) = <<"face", "face focus">>
    /\ get_category_items("composition", analysis_again.value) = <<"face", "face focus">>
    /\ get_category_items("quality", analysis.value) = <<"hdr", "sharp focus">>

\* The two runs list the same terms in different orders: the lists of
\* categorized_images and of the variations follow the hashing of the run
TermOrderDiffers ==
    /\ BothRuns
    /\ analysis.value.categorized_images # analysis_again.value.categorized_images

VariationOrderDiffers ==
    /\ BothRuns
    /\ analysis.value.variations # analysis_again.value.variations


---------------------------------------------------------------------------
(* The term inventories of the selection page.                             *)

\* app.py 408-412: for category in CATEGORIES: get_category_items(category,
\* data), the inventories the page offers for selection
Offered(data) ==
    [category \in DictKeySet(CATEGORIES) |-> get_category_items(category, data)]

\* The terms the categorizer matches for the category in some record
Observed(category) ==
    UNION {UNION {IF sets[k][1] = category THEN sets[k][2] ELSE {} :
                     k \in 1..Len(sets)} :
              sets \in UNION {OwnCategories[images[i]] : i \in 1..Len(images)}}

InventoryOf(category) ==
    /\ category \in DictKeySet(CATEGORIES)
    /\ Offered(load_data(analysis))[category] = SortedOfSet(Observed(category))

\* C21: for every category of the positive taxonomy the inventory offered
\* for selection is the sorted, duplicate-free list of exactly the terms
\* matched for the category in some record of the corpus, no category with
\* observed terms is without an inventory, and every inventory is empty
\* when no data is loaded.
C21_InventoryOfEveryCategory ==
    /\ analysis.kind = "return" =>
          \A category \in DictKeySet(CATEGORY_PATTERNS) :
              Observed(category) # {} => InventoryOf(category)
    /\ analysis.kind # "return" =>
          \A category \in DictKeySet(CATEGORIES) :
              Offered(load_data(analysis))[category] = <<>>

\* What holds: the categories the page lists have the inventory the claim
\* describes, and all of them are empty while no data is written
ListedCategoriesHaveInventory ==
    /\ analysis.kind = "return" =>
          \A category \in DictKeySet(CATEGORIES) : InventoryOf(category)
    /\ analysis.kind # "return" =>
          \A category \in DictKeySet(CATEGORIES) :
              Offered(load_data(analysis))[category] = <<>>

\* The page lists every category of the taxonomy but physical_details
UnlistedCategories ==
    DictKeySet(CATEGORY_PATTERNS) \ DictKeySet(CATEGORIES) = {"physical_details"}

\* A term of physical_details is annotated and the page has no inventory
\* for it, while the quality terms of the same record are offered
PhysicalDetailsNotOffered ==
    /\ analysis.kind = "return"
    /\ Observed("physical_details") = {"tattoo"}
    /\ get_category_items("physical_details", load_data(analysis)) = <<"tattoo">>
    /\ "physical_details" \notin DOMAIN Offered(load_data(analysis))
    /\ Offered(load_data(analysis))["quality"] = <<"hdr", "sharp focus">>


---------------------------------------------------------------------------
(* The number of prompts a Generate stores (SpecApp)                       *)

\* The pairs of the downloaded object
DownloadedPairs == DictGet(all_prompts(positive_variations, negative_variations).val,
                           "variations").val

\* The i-th pair of the download holds the i-th positive and the i-th
\* negative prompt
PairedInOrder ==
    \A i \in 1..Len(DownloadedPairs) :
        /\ i <= Len(positive_variations) /\ i <= Len(negative_variations)
        /\ DictGet(DownloadedPairs[i].val, "positive") = positive_variations[i]
        /\ DictGet(DownloadedPairs[i].val, "negative") = PyStr(negative_variations[i])

ExactlyRequested ==
    /\ Len(positive_variations) = num_variations
    /\ Len(negative_variations) = num_variations
    /\ Len(DownloadedPairs) = num_variations
    /\ PairedInOrder

\* C22: after every completed Generate with requested count n the session
\* holds exactly n positive and exactly n negative prompts, and the results
\* shown and the downloaded object hold exactly n pairs, the i-th pairing
\* the i-th positive with the i-th negative, on the AI path as on the
\* fallback path.
C22_ExactlyRequestedPairs == [][Generate => ExactlyRequested']_vars

\* What holds: a Generate stores exactly n negative prompts, exactly n
\* positive prompts when they are the fallback's, and the download pairs
\* the prompts in order up to the shorter of the two lists
NegativesAsRequested ==
    [][Generate => /\ Len(negative_variations') = num_variations
                   /\ PairedInOrder'
                   /\ Len(DownloadedPairs') = Min(Len(positive_variations'),
                                                  Len(negative_variations'))]_vars

FallbackAsRequested ==
    [][(Generate /\ (reply' = NotCalled
                     \/ ~Truthy(call_minimax_api(api_key, reply'))))
          => ExactlyRequested']_vars

\* The service answered with one prompt where two were requested: one pair
\* is shown and downloaded, and the second negative prompt is dropped
FewerPromptsThanRequested ==
    /\ generated
    /\ num_variations = 2
    /\ reply = FencedReply
    /\ positive_variations = <<PyStr("a cat")>>
    /\ Len(negative_variations) = 2
    /\ Len(DownloadedPairs) = 1

\* The service answered with two prompts where one was requested: the
\* second positive prompt is stored and has no negative prompt
MorePromptsThanRequested ==
    /\ generated
    /\ num_variations = 1
    /\ reply = GoodReply
    /\ positive_variations = <<PyStr("a cat"), PyStr("a dog")>>
    /\ Len(negative_variations) = 1
    /\ Len(DownloadedPairs) = 1


---------------------------------------------------------------------------
(* A key the variant table defines twice (SpecVariant)                     *)

\* The places of the dict display at which the key is written
DefinitionsOf(key) ==
    {i \in 1..Len(VARIATION_MAP_ITEMS) : VARIATION_MAP_ITEMS[i][1] = key}

DefinedMoreThanOnce ==
    {key \in {VARIATION_MAP_ITEMS[i][1] : i \in 1..Len(VARIATION_MAP_ITEMS)} :
        Cardinality(DefinitionsOf(key)) > 1}

\* The variants of the definition written last
LastDefinition(key) ==
    LET last == CHOOSE i \in DefinitionsOf(key) : \A j \in DefinitionsOf(key) : j <= i
    IN  SeqElems(VARIATION_MAP_ITEMS[last][2])

\* The variants only an earlier definition lists
EarlierOnly(key) ==
    UNION {SeqElems(VARIATION_MAP_ITEMS[i][2]) : i \in DefinitionsOf(key)}
        \ LastDefinition(key)

\* C23: for a key the variant table defines more than once ("standing")
\* the last definition wins: every lookup of the key returns a member of
\* the list defined last, and never a member only an earlier definition
\* lists.
C23_LastDefinitionWins ==
    /\ "standing" \in DefinedMoreThanOnce
    /\ \A key \in DefinedMoreThanOnce :
          (variation # NotCalled /\ str_lower(term) = key) =>
              /\ variation.kind = "return"
              /\ variation.value \in LastDefinition(key)
              /\ variation.value \notin EarlierOnly(key)
              /\ PossibleVariations(term)
                    \subseteq {Return(v) : v \in LastDefinition(key)}

\* "standing", in any case, has been looked up and a variant has come
\* back that only the last definition lists, while the earlier one lists
\* variants the last does not
C23_Witness ==
    /\ str_lower(term) = "standing"
    /\ variation = Return("upright")
    /\ EarlierOnly("standing") = {"stand", "standing up", "stands up"}
    /\ "upright" \notin SeqElems(VARIATION_MAP_ITEMS[2][2])

\* "standing" is the only key written twice
OnlyStandingTwice == DefinedMoreThanOnce = {"standing"}


---------------------------------------------------------------------------
(* The variations the analyzer reports (SpecCorpus)                        *)

\* The prompts of the corpus, in lower case
LoweredPrompts ==
    {str_lower(DictGet(images[i].val, "positivePrompt").val) :
        i \in {j \in 1..Len(images) :
                  /\ DictHas(images[j].val, "positivePrompt")
                  /\ DictGet(images[j].val, "positivePrompt").type = "str"}}

\* The variant stands in the text as a term: no word character precedes
\* or follows the place at which it is written
OccursAsTerm(variant, text) ==
    \E i \in 1..(Len(text) - Len(variant) + 1) :
        /\ SubSeq(text, i, i + Len(variant) - 1) = variant
        /\ (i = 1 \/ Ch(text, i - 1) \notin WordChars)
        /\ (i + Len(variant) > Len(text) \/ Ch(text, i + Len(variant)) \notin WordChars)

ObservedAsTerm(variant) == \E text \in LoweredPrompts : OccursAsTerm(variant, text)

TableVariants(canonical) == SeqElems(DictGet(variation_map, canonical))

\* C24: the variations map of the result holds only variants observed in
\* the corpus: a variant is listed under a canonical key only if it occurs
\* as a term in some prompt, and a canonical key is present only if one
\* of its variants occurs as a term, not merely as a part of another
\* word, in some prompt.
C24_OnlyObservedVariants ==
    (analysis # NotCalled /\ analysis.kind = "return") =>
        \A k \in 1..Len(analysis.value.variations) :
            LET canonical == analysis.value.variations[k][1]
                listed == SeqElems(analysis.value.variations[k][2])
            IN  /\ \A variant \in listed : ObservedAsTerm(variant)
                /\ \E variant \in TableVariants(canonical) : ObservedAsTerm(variant)

\* What holds: a canonical key is present exactly when one of its
\* variants is written somewhere in a lowered prompt, inside a word or
\* not, and it then lists every variant of the table, each once
AllVariantsOfMatchedKeys ==
    (analysis # NotCalled /\ analysis.kind = "return") =>
        /\ DictKeySet(analysis.value.variations) =
              {variation_map[e][1] : e \in
                  {d \in 1..Len(variation_map) :
                      \E variant \in SeqElems(variation_map[d][2]) :
                      \E text \in LoweredPrompts : IsSubstring(variant, text)}}
        /\ \A k \in 1..Len(analysis.value.variations) :
              /\ SeqElems(analysis.value.variations[k][2])
                    = TableVariants(analysis.value.variations[k][1])
              /\ Len(analysis.value.variations[k][2])
                    = Cardinality(TableVariants(analysis.value.variations[k][1]))

\* The one prompt "Standing" has given the key standing with the variants
\* stand, stands and standing up, none of which is a term of the prompt
UnobservedVariantsListed ==
    /\ analysis # NotCalled /\ analysis.kind = "return"
    /\ LoweredPrompts = {"standing"}
    /\ DictKeySet(analysis.value.variations) = {"standing"}
    /\ SeqElems(DictGet(analysis.value.variations, "standing"))
          = {"stand", "stands", "standing up"}
    /\ ~ObservedAsTerm("stand") /\ ~ObservedAsTerm("stands") /\ ~ObservedAsTerm("standing up")


---------------------------------------------------------------------------
(* The types of what the page stores (SpecApp)                             *)

AllStrings(l) == \A i \in 1..Len(l) : l[i].type = "str"

\* A list of which every element is a string or an object
ExpansionList(v) ==
    /\ v.type = "list"
    /\ \A j \in 1..Len(v.val) : v.val[j].type \in {"str", "dict"}

\* C25: every element stored in positive_variations after Generate is a
\* string, every value stored in expanded_prompts after Expand is a list
\* of strings or {prompt, description} objects, whatever well-formed JSON
\* the service replies with (an array of objects without "prompt", an
\* array of non-objects, an object, a number or a string), and rendering
\* the results never raises.
C25_StoredResultsAreText ==
    /\ AllStrings(positive_variations)
    /\ \A k \in 1..Len(expanded_prompts) : ExpansionList(expanded_prompts[k][2])
    /\ page_error = PyNone

\* What holds: the prompts of the fallback and of a reply that is an
\* array of objects with "prompt" are stored as strings, and the fallback
\* expansions as a list of objects
TextFromPromptArrays ==
    [][ /\ (Generate /\ reply' \in {NotCalled, GoodReply, FencedReply}
                                       \cup NoArrayReplies)
            => AllStrings(positive_variations')
        /\ \A i \in 0..(MaxVariations - 1) :
              (Expand(i) /\ reply' \in {NotCalled, GoodReply, FencedReply}
                                          \cup FailedReplies
                         /\ page_error' = PyNone)
                  => ExpansionList(DictGet(expanded_prompts', i)) ]_vars

\* An array of an object without "prompt": the object itself is stored
\* as a positive prompt
ObjectStoredAsPrompt ==
    /\ generated
    /\ reply = Content("[{\"description\": \"no prompt\"}]")
    /\ Len(positive_variations) = 1
    /\ positive_variations[1].type = "dict"

\* An array with a number: the number is stored as a positive prompt, and
\* Expand on it without an answer of the service has raised TypeError
NumberStoredAsPrompt ==
    /\ generated
    /\ Len(positive_variations) = 2
    /\ positive_variations[2] = PyInt(7)
    /\ page_error = PageError("TypeError", 1)

\* A number, a string or an object replied to Expand is stored as the
\* expansions of a variation
NoListStoredAsExpansions ==
    \E k \in 1..Len(expanded_prompts) :
        /\ expanded_prompts[k][2].type \in {"int", "str", "dict"}
        /\ reply \in OddReplies


---------------------------------------------------------------------------
(* The expansions shown under a variation (SpecApp)                        *)

\* The page shows an expansion list under variation i (counted from 0)
ExpansionsShownUnder(i) ==
    /\ ResultsShown(generated, positive_variations)
    /\ i < ShownVariations(positive_variations, negative_variations)
    /\ DictGetDefault(show_expansion, i, FALSE)
    /\ DictHas(expanded_prompts, i)

FromCurrentPrompt(i) ==
    /\ DictHas(expanded_from, i)
    /\ DictGet(expanded_from, i) = positive_variations[i + 1]

\* C26: after any sequence of Generate, Expand, Hide and Clear every
\* expansion list shown under variation i was produced from the positive
\* prompt now stored as variation i; a Generate with "Clear previous
\* results" unchecked leaves no expansions of an earlier generation shown
\* under a new variation of the same index.
C26_ExpansionsOfCurrentPrompt ==
    \A i \in 0..(Len(positive_variations) - 1) :
        ExpansionsShownUnder(i) => FromCurrentPrompt(i)

\* What holds: with "Clear previous results" checked the expansions shown
\* are those of the current prompt, and in every session Expand stores,
\* with the expansions of variation i, the prompt of variation i
CheckedClearKeepsExpansionsCurrent == clear_prev => C26_ExpansionsOfCurrentPrompt

ExpandIsOfCurrentPrompt ==
    [][\A i \in 0..(MaxVariations - 1) :
          (Expand(i) /\ expanded_prompts' # expanded_prompts) => FromCurrentPrompt(i)']_vars

\* Generate, Expand on variation 0, and Generate again with "Clear
\* previous results" unchecked: the expansions made from the first prompt
\* are shown under the new prompt of the same index
StaleExpansionsShown ==
    /\ ~clear_prev
    /\ generation_count = 2
    /\ ExpansionsShownUnder(0)
    /\ DictGet(expanded_from, 0) # positive_variations[1]
    /\ page_error = PyNone


---------------------------------------------------------------------------
(* The counter of the generations of a session (SpecApp)                   *)

StoresEmptied ==
    /\ ~generated
    /\ positive_variations = <<>>
    /\ negative_variations = <<>>
    /\ expanded_prompts = EmptyDict
    /\ show_expansion = EmptyDict

\* C27: generation_count is the number of Generate actions since the
\* start of the session or the last Clear Results: it starts at 0,
\* Generate adds exactly 1 to it whether "Clear previous results" is
\* checked or not, Clear Results sets it to 0 together with generated =
\* false and empty result and expansion stores, and Expand and Hide leave
\* it and the stored positive and negative variations as they are.
C27_SessionCounter ==
    /\ generation_count = 0
    /\ [][ /\ Generate => generation_count' = generation_count + 1
           /\ Clear => (generation_count' = 0 /\ StoresEmptied')
           /\ \A i \in 0..(MaxVariations - 1) :
                 (Expand(i) \/ Hide(i)) =>
                     UNCHANGED <<generation_count, positive_variations,
                                 negative_variations>> ]_vars

\* In a session with "Clear previous results" checked the second Generate
\* has counted 2, and an Expand and a Hide after it have left the count
C27_Witness ==
    /\ clear_prev
    /\ generation_count = 2
    /\ generated
    /\ \E k \in 1..Len(show_expansion) : show_expansion[k][2] = FALSE

\* Clear Results has been pressed after a Generate
SessionCleared ==
    /\ reply # NotCalled
    /\ generation_count = 0
    /\ StoresEmptied


---------------------------------------------------------------------------
(* The accounting of the LoRA statistics (SpecLoras, SpecManyLoras)        *)

KeysOf(d) == {d[k][1] : k \in 1..Len(d)}

\* The sum of by_base[base][name] over the first k base models
RECURSIVE CountedUnderBases(_, _, _)
CountedUnderBases(by_base, k, name) ==
    IF k = 0 THEN 0
    ELSE CountedUnderBases(by_base, k - 1, name) + ValueOf(by_base[k][2], name, 0)

\* The weights averaged for each name (missing ones as 1.0)
WeightsAveraged == LorasUpTo(images, Len(images)).value.lora_weights

\* The references of the corpus to the name
RECURSIVE ReferencesUpTo(_, _)
ReferencesUpTo(r, name) ==
    IF r = 0 THEN 0
    ELSE ReferencesUpTo(r - 1, name) + Occurrences(ListedNames(images[r]), name)

NamesOutsideCounts ==
    (UNION {KeysOf(lora_analysis.value.by_base[b][2]) :
               b \in 1..Len(lora_analysis.value.by_base)}
        \cup KeysOf(lora_analysis.value.avg_weights))
    \ KeysOf(lora_analysis.value.counts)

\* For every name of counts: its count is the sum of its counts under the
\* base models, the number of weights averaged for it, and the number of
\* references to it; no count is kept for an empty name or for 'Unknown'
CountedNamesAccounted ==
    LET counts == lora_analysis.value.counts
    IN  /\ \A k \in 1..Len(counts) :
              /\ counts[k][2] = CountedUnderBases(lora_analysis.value.by_base,
                                    Len(lora_analysis.value.by_base), counts[k][1])
              /\ KeyIn(lora_analysis.value.avg_weights, counts[k][1])
              /\ counts[k][2] = Len(ValueOf(WeightsAveraged, counts[k][1], <<>>))
              /\ counts[k][2] = ReferencesUpTo(Len(images), counts[k][1].val)
        /\ \A name \in KeysOf(counts) \cup NamesOutsideCounts :
              name \notin {PyStr(""), Unknown, PyNone}

\* C28: after the analysis of any corpus, for every name of counts,
\* counts[name] is the sum over the base models of by_base[base][name] and
\* the number of weights averaged into avg_weights[name], a missing weight
\* counted as 1.0; references whose name is missing, empty or 'Unknown'
\* are counted nowhere; and every name of by_base or of avg_weights is a
\* name of counts.
C28_LoraAccountingConsistent ==
    LorasAnalyzed => (CountedNamesAccounted /\ NamesOutsideCounts = {})

\* What holds: the first two parts for every corpus, the third while the
\* corpus has at most MostCommonLoras names
CountsWithinLimitConsistent ==
    LorasAnalyzed =>
        /\ CountedNamesAccounted
        /\ Len(WeightsAveraged) <= MostCommonLoras => NamesOutsideCounts = {}
        /\ Len(lora_analysis.value.counts) <= MostCommonLoras

\* 51 names, each listed once: counts keeps the first 50, and the last has
\* an average weight and a count under its base model and none in counts
NameCutFromCounts ==
    /\ LorasAnalyzed
    /\ images = <<ManyLoras(1), ManyLoras(2), ManyLoras(3)>>
    /\ Len(lora_analysis.value.counts) = MostCommonLoras
    /\ Len(lora_analysis.value.avg_weights) = MostCommonLoras + 1
    /\ NamesOutsideCounts = {PyStr("y")}
    /\ ValueOf(lora_analysis.value.avg_weights, PyStr("y"), PyNone) = DefaultWeight

====
